---- MODULE Spec2Model ----
(***************************************************************************)
(* A model of the periodontal-clinic record keeper: the record model       *)
(* (core.py), the repository (storage.py) and the application service      *)
(* (application.py).                                                       *)
(*                                                                         *)
(* Python values are tagged tuples:                                        *)
(*   <<"None">>        None                                                *)
(*   <<"bool", b>>     True / False                                        *)
(*   <<"int", n>>      an int                                              *)
(*   <<"date", n>>     a datetime.date, n = year*10000 + month*100 + day   *)
(*   <<"str", s>>      a str.  A str the program parses or formats (date,  *)
(*                     birthday, the bounds of tally_stats) is the tuple   *)
(*                     of its characters; a str the program only stores    *)
(*                     and compares (mrn, names, asa, note, flag texts,    *)
(*                     class names) is a TLA+ string.                      *)
(* A dict is a function from its keys (strings) to values.  An object is   *)
(* its __dict__; an appointment also carries its class.                    *)
(***************************************************************************)
EXTENDS Integers, Sequences, FiniteSets, TLC

VARIABLES patients, file, last, pre, out, peer, writing, saved

vars == <<patients, file, last, pre, out, peer, writing, saved>>

----------------------------------------------------------------------------
(* Python values *)

PyNone == <<"None">>
PyBool(b) == <<"bool", b>>
PyInt(n) == <<"int", n>>
PyDate(n) == <<"date", n>>
PyStr(s) == <<"str", s>>

TypeOf(v) == v[1]

\* a == b of two Python values: a bool is an int (True == 1, False == 0),
\* values of different types are otherwise unequal
PyEq(a, b) ==
    IF TypeOf(a) \in {"int", "bool"} /\ TypeOf(b) \in {"int", "bool"}
    THEN (IF TypeOf(a) = "bool" THEN (IF a[2] THEN 1 ELSE 0) ELSE a[2])
         = (IF TypeOf(b) = "bool" THEN (IF b[2] THEN 1 ELSE 0) ELSE b[2])
    ELSE a = b

\* dict.get(k): the value, or None when the key is absent
Get(d, k) == IF k \in DOMAIN d THEN d[k] ELSE PyNone

\* the result of a call: a value, or a raised exception
Ok(v) == [exc |-> "none", val |-> v]
Raise(e) == [exc |-> e, val |-> PyNone]

\* a local name: rest(v) is the code that follows the assignment of v
With(v, rest(_)) == rest(v)

----------------------------------------------------------------------------
(* datetime.strptime(s, '%Y%m%d').date() and date.strftime('%Y%m%d') *)

DigitChar == <<"0", "1", "2", "3", "4", "5", "6", "7", "8", "9">>

\* the decimal digits outside ASCII (Unicode category Nd), each character
\* written by its code point: a row holds the digits 0 to 9 of one script
UnicodeDigits ==
   <<
      <<"U+0660", "U+0661", "U+0662", "U+0663", "U+0664",
        "U+0665", "U+0666", "U+0667", "U+0668", "U+0669">>,
      <<"U+06F0", "U+06F1", "U+06F2", "U+06F3", "U+06F4",
        "U+06F5", "U+06F6", "U+06F7", "U+06F8", "U+06F9">>,
      <<"U+07C0", "U+07C1", "U+07C2", "U+07C3", "U+07C4",
        "U+07C5", "U+07C6", "U+07C7", "U+07C8", "U+07C9">>,
      <<"U+0966", "U+0967", "U+0968", "U+0969", "U+096A",
        "U+096B", "U+096C", "U+096D", "U+096E", "U+096F">>,
      <<"U+09E6", "U+09E7", "U+09E8", "U+09E9", "U+09EA",
        "U+09EB", "U+09EC", "U+09ED", "U+09EE", "U+09EF">>,
      <<"U+0A66", "U+0A67", "U+0A68", "U+0A69", "U+0A6A",
        "U+0A6B", "U+0A6C", "U+0A6D", "U+0A6E", "U+0A6F">>,
      <<"U+0AE6", "U+0AE7", "U+0AE8", "U+0AE9", "U+0AEA",
        "U+0AEB", "U+0AEC", "U+0AED", "U+0AEE", "U+0AEF">>,
      <<"U+0B66", "U+0B67", "U+0B68", "U+0B69", "U+0B6A",
        "U+0B6B", "U+0B6C", "U+0B6D", "U+0B6E", "U+0B6F">>,
      <<"U+0BE6", "U+0BE7", "U+0BE8", "U+0BE9", "U+0BEA",
        "U+0BEB", "U+0BEC", "U+0BED", "U+0BEE", "U+0BEF">>,
      <<"U+0C66", "U+0C67", "U+0C68", "U+0C69", "U+0C6A",
        "U+0C6B", "U+0C6C", "U+0C6D", "U+0C6E", "U+0C6F">>,
      <<"U+0CE6", "U+0CE7", "U+0CE8", "U+0CE9", "U+0CEA",
        "U+0CEB", "U+0CEC", "U+0CED", "U+0CEE", "U+0CEF">>,
      <<"U+0D66", "U+0D67", "U+0D68", "U+0D69", "U+0D6A",
        "U+0D6B", "U+0D6C", "U+0D6D", "U+0D6E", "U+0D6F">>,
      <<"U+0DE6", "U+0DE7", "U+0DE8", "U+0DE9", "U+0DEA",
        "U+0DEB", "U+0DEC", "U+0DED", "U+0DEE", "U+0DEF">>,
      <<"U+0E50", "U+0E51", "U+0E52", "U+0E53", "U+0E54",
        "U+0E55", "U+0E56", "U+0E57", "U+0E58", "U+0E59">>,
      <<"U+0ED0", "U+0ED1", "U+0ED2", "U+0ED3", "U+0ED4",
        "U+0ED5", "U+0ED6", "U+0ED7", "U+0ED8", "U+0ED9">>,
      <<"U+0F20", "U+0F21", "U+0F22", "U+0F23", "U+0F24",
        "U+0F25", "U+0F26", "U+0F27", "U+0F28", "U+0F29">>,
      <<"U+1040", "U+1041", "U+1042", "U+1043", "U+1044",
        "U+1045", "U+1046", "U+1047", "U+1048", "U+1049">>,
      <<"U+1090", "U+1091", "U+1092", "U+1093", "U+1094",
        "U+1095", "U+1096", "U+1097", "U+1098", "U+1099">>,
      <<"U+17E0", "U+17E1", "U+17E2", "U+17E3", "U+17E4",
        "U+17E5", "U+17E6", "U+17E7", "U+17E8", "U+17E9">>,
      <<"U+1810", "U+1811", "U+1812", "U+1813", "U+1814",
        "U+1815", "U+1816", "U+1817", "U+1818", "U+1819">>,
      <<"U+1946", "U+1947", "U+1948", "U+1949", "U+194A",
        "U+194B", "U+194C", "U+194D", "U+194E", "U+194F">>,
      <<"U+19D0", "U+19D1", "U+19D2", "U+19D3", "U+19D4",
        "U+19D5", "U+19D6", "U+19D7", "U+19D8", "U+19D9">>,
      <<"U+1A80", "U+1A81", "U+1A82", "U+1A83", "U+1A84",
        "U+1A85", "U+1A86", "U+1A87", "U+1A88", "U+1A89">>,
      <<"U+1A90", "U+1A91", "U+1A92", "U+1A93", "U+1A94",
        "U+1A95", "U+1A96", "U+1A97", "U+1A98", "U+1A99">>,
      <<"U+1B50", "U+1B51", "U+1B52", "U+1B53", "U+1B54",
        "U+1B55", "U+1B56", "U+1B57", "U+1B58", "U+1B59">>,
      <<"U+1BB0", "U+1BB1", "U+1BB2", "U+1BB3", "U+1BB4",
        "U+1BB5", "U+1BB6", "U+1BB7", "U+1BB8", "U+1BB9">>,
      <<"U+1C40", "U+1C41", "U+1C42", "U+1C43", "U+1C44",
        "U+1C45", "U+1C46", "U+1C47", "U+1C48", "U+1C49">>,
      <<"U+1C50", "U+1C51", "U+1C52", "U+1C53", "U+1C54",
        "U+1C55", "U+1C56", "U+1C57", "U+1C58", "U+1C59">>,
      <<"U+A620", "U+A621", "U+A622", "U+A623", "U+A624",
        "U+A625", "U+A626", "U+A627", "U+A628", "U+A629">>,
      <<"U+A8D0", "U+A8D1", "U+A8D2", "U+A8D3", "U+A8D4",
        "U+A8D5", "U+A8D6", "U+A8D7", "U+A8D8", "U+A8D9">>,
      <<"U+A900", "U+A901", "U+A902", "U+A903", "U+A904",
        "U+A905", "U+A906", "U+A907", "U+A908", "U+A909">>,
      <<"U+A9D0", "U+A9D1", "U+A9D2", "U+A9D3", "U+A9D4",
        "U+A9D5", "U+A9D6", "U+A9D7", "U+A9D8", "U+A9D9">>,
      <<"U+A9F0", "U+A9F1", "U+A9F2", "U+A9F3", "U+A9F4",
        "U+A9F5", "U+A9F6", "U+A9F7", "U+A9F8", "U+A9F9">>,
      <<"U+AA50", "U+AA51", "U+AA52", "U+AA53", "U+AA54",
        "U+AA55", "U+AA56", "U+AA57", "U+AA58", "U+AA59">>,
      <<"U+ABF0", "U+ABF1", "U+ABF2", "U+ABF3", "U+ABF4",
        "U+ABF5", "U+ABF6", "U+ABF7", "U+ABF8", "U+ABF9">>,
      <<"U+FF10", "U+FF11", "U+FF12", "U+FF13", "U+FF14",
        "U+FF15", "U+FF16", "U+FF17", "U+FF18", "U+FF19">>,
      <<"U+104A0", "U+104A1", "U+104A2", "U+104A3", "U+104A4",
        "U+104A5", "U+104A6", "U+104A7", "U+104A8", "U+104A9">>,
      <<"U+10D30", "U+10D31", "U+10D32", "U+10D33", "U+10D34",
        "U+10D35", "U+10D36", "U+10D37", "U+10D38", "U+10D39">>,
      <<"U+11066", "U+11067", "U+11068", "U+11069", "U+1106A",
        "U+1106B", "U+1106C", "U+1106D", "U+1106E", "U+1106F">>,
      <<"U+110F0", "U+110F1", "U+110F2", "U+110F3", "U+110F4",
        "U+110F5", "U+110F6", "U+110F7", "U+110F8", "U+110F9">>,
      <<"U+11136", "U+11137", "U+11138", "U+11139", "U+1113A",
        "U+1113B", "U+1113C", "U+1113D", "U+1113E", "U+1113F">>,
      <<"U+111D0", "U+111D1", "U+111D2", "U+111D3", "U+111D4",
        "U+111D5", "U+111D6", "U+111D7", "U+111D8", "U+111D9">>,
      <<"U+112F0", "U+112F1", "U+112F2", "U+112F3", "U+112F4",
        "U+112F5", "U+112F6", "U+112F7", "U+112F8", "U+112F9">>,
      <<"U+11450", "U+11451", "U+11452", "U+11453", "U+11454",
        "U+11455", "U+11456", "U+11457", "U+11458", "U+11459">>,
      <<"U+114D0", "U+114D1", "U+114D2", "U+114D3", "U+114D4",
        "U+114D5", "U+114D6", "U+114D7", "U+114D8", "U+114D9">>,
      <<"U+11650", "U+11651", "U+11652", "U+11653", "U+11654",
        "U+11655", "U+11656", "U+11657", "U+11658", "U+11659">>,
      <<"U+116C0", "U+116C1", "U+116C2", "U+116C3", "U+116C4",
        "U+116C5", "U+116C6", "U+116C7", "U+116C8", "U+116C9">>,
      <<"U+11730", "U+11731", "U+11732", "U+11733", "U+11734",
        "U+11735", "U+11736", "U+11737", "U+11738", "U+11739">>,
      <<"U+118E0", "U+118E1", "U+118E2", "U+118E3", "U+118E4",
        "U+118E5", "U+118E6", "U+118E7", "U+118E8", "U+118E9">>,
      <<"U+11950", "U+11951", "U+11952", "U+11953", "U+11954",
        "U+11955", "U+11956", "U+11957", "U+11958", "U+11959">>,
      <<"U+11C50", "U+11C51", "U+11C52", "U+11C53", "U+11C54",
        "U+11C55", "U+11C56", "U+11C57", "U+11C58", "U+11C59">>,
      <<"U+11D50", "U+11D51", "U+11D52", "U+11D53", "U+11D54",
        "U+11D55", "U+11D56", "U+11D57", "U+11D58", "U+11D59">>,
      <<"U+11DA0", "U+11DA1", "U+11DA2", "U+11DA3", "U+11DA4",
        "U+11DA5", "U+11DA6", "U+11DA7", "U+11DA8", "U+11DA9">>,
      <<"U+16A60", "U+16A61", "U+16A62", "U+16A63", "U+16A64",
        "U+16A65", "U+16A66", "U+16A67", "U+16A68", "U+16A69">>,
      <<"U+16AC0", "U+16AC1", "U+16AC2", "U+16AC3", "U+16AC4",
        "U+16AC5", "U+16AC6", "U+16AC7", "U+16AC8", "U+16AC9">>,
      <<"U+16B50", "U+16B51", "U+16B52", "U+16B53", "U+16B54",
        "U+16B55", "U+16B56", "U+16B57", "U+16B58", "U+16B59">>,
      <<"U+1D7CE", "U+1D7CF", "U+1D7D0", "U+1D7D1", "U+1D7D2",
        "U+1D7D3", "U+1D7D4", "U+1D7D5", "U+1D7D6", "U+1D7D7">>,
      <<"U+1D7D8", "U+1D7D9", "U+1D7DA", "U+1D7DB", "U+1D7DC",
        "U+1D7DD", "U+1D7DE", "U+1D7DF", "U+1D7E0", "U+1D7E1">>,
      <<"U+1D7E2", "U+1D7E3", "U+1D7E4", "U+1D7E5", "U+1D7E6",
        "U+1D7E7", "U+1D7E8", "U+1D7E9", "U+1D7EA", "U+1D7EB">>,
      <<"U+1D7EC", "U+1D7ED", "U+1D7EE", "U+1D7EF", "U+1D7F0",
        "U+1D7F1", "U+1D7F2", "U+1D7F3", "U+1D7F4", "U+1D7F5">>,
      <<"U+1D7F6", "U+1D7F7", "U+1D7F8", "U+1D7F9", "U+1D7FA",
        "U+1D7FB", "U+1D7FC", "U+1D7FD", "U+1D7FE", "U+1D7FF">>,
      <<"U+1E140", "U+1E141", "U+1E142", "U+1E143", "U+1E144",
        "U+1E145", "U+1E146", "U+1E147", "U+1E148", "U+1E149">>,
      <<"U+1E2F0", "U+1E2F1", "U+1E2F2", "U+1E2F3", "U+1E2F4",
        "U+1E2F5", "U+1E2F6", "U+1E2F7", "U+1E2F8", "U+1E2F9">>,
      <<"U+1E950", "U+1E951", "U+1E952", "U+1E953", "U+1E954",
        "U+1E955", "U+1E956", "U+1E957", "U+1E958", "U+1E959">>,
      <<"U+1FBF0", "U+1FBF1", "U+1FBF2", "U+1FBF3", "U+1FBF4",
        "U+1FBF5", "U+1FBF6", "U+1FBF7", "U+1FBF8", "U+1FBF9">>
   >>

\* [0-9] of a pattern
IsAsciiDigit(c) == \E i \in 1..10 : DigitChar[i] = c

\* \d of a str pattern: any decimal digit
IsDigit(c) ==
    \/ IsAsciiDigit(c)
    \/ \E r \in 1..Len(UnicodeDigits) : \E i \in 1..10 : UnicodeDigits[r][i] = c

\* int(c) of a decimal digit
DigitVal(c) ==
    IF IsAsciiDigit(c) THEN (CHOOSE i \in 1..10 : DigitChar[i] = c) - 1
    ELSE (CHOOSE i \in 1..10 :
              \E r \in 1..Len(UnicodeDigits) : UnicodeDigits[r][i] = c) - 1

\* the regex alternatives of %m: 1[0-2] | 0[1-9] | [1-9]
MonthTwo(c1, c2) ==
    \/ c1 = "1" /\ c2 \in {"0", "1", "2"}
    \/ c1 = "0" /\ IsAsciiDigit(c2) /\ c2 # "0"

MonthOne(c) == IsAsciiDigit(c) /\ c # "0"

\* the regex alternatives of %d: 3[01] | [12]\d | 0[1-9] | [1-9] | " "[1-9]
DayTwo(c1, c2) ==
    \/ c1 = "3" /\ c2 \in {"0", "1"}
    \/ c1 \in {"1", "2"} /\ IsDigit(c2)
    \/ c1 = "0" /\ IsAsciiDigit(c2) /\ c2 # "0"
    \/ c1 = " " /\ IsAsciiDigit(c2) /\ c2 # "0"

DayOne(c) == IsAsciiDigit(c) /\ c # "0"

\* the number of characters the day group takes at position p, 0 when it
\* does not match there (the two-character alternatives are tried first)
DayLen(s, p) ==
    IF p + 1 <= Len(s) /\ DayTwo(s[p], s[p + 1]) THEN 2
    ELSE IF p <= Len(s) /\ DayOne(s[p]) THEN 1
    ELSE 0

\* the number of characters the month group takes at position 5: the first
\* alternative after which the day group matches (regex backtracking)
MonthLen(s) ==
    IF Len(s) >= 6 /\ MonthTwo(s[5], s[6]) /\ DayLen(s, 7) > 0 THEN 2
    ELSE IF Len(s) >= 5 /\ MonthOne(s[5]) /\ DayLen(s, 6) > 0 THEN 1
    ELSE 0

Num(s, from, to) ==
    IF from = to THEN DigitVal(s[from])
    ELSE 10 * DigitVal(s[from]) + DigitVal(s[to])

IsLeap(y) == (y % 4 = 0 /\ y % 100 # 0) \/ y % 400 = 0

DaysInMonth(y, m) ==
    IF m = 2 THEN (IF IsLeap(y) THEN 29 ELSE 28)
    ELSE IF m \in {4, 6, 9, 11} THEN 30
    ELSE 31

\* strptime of a Python value: TypeError for a non-str, ValueError when the
\* pattern does not match, when text remains after the match, or when the
\* day does not exist; otherwise the date
Strptime(v) ==
    IF TypeOf(v) # "str" THEN Raise("TypeError")
    ELSE IF ~(Len(v[2]) >= 4 /\ \A i \in 1..4 : IsDigit(v[2][i])) THEN Raise("ValueError")
    ELSE With(MonthLen(v[2]), LAMBDA ml :
         With(DayLen(v[2], 5 + ml), LAMBDA dl :
         IF ml = 0 THEN Raise("ValueError")
         ELSE IF 4 + ml + dl # Len(v[2]) THEN Raise("ValueError")
         ELSE With(1000 * DigitVal(v[2][1]) + 100 * DigitVal(v[2][2])
                   + 10 * DigitVal(v[2][3]) + DigitVal(v[2][4]), LAMBDA y :
              With(Num(v[2], 5, 4 + ml), LAMBDA m :
              With(IF v[2][5 + ml] = " " THEN DigitVal(v[2][6 + ml])
                   ELSE Num(v[2], 5 + ml, 4 + ml + dl), LAMBDA d :
              IF y < 1 \/ d > DaysInMonth(y, m) THEN Raise("ValueError")
              ELSE Ok(PyDate(y * 10000 + m * 100 + d)))))))

Pow10(k) == IF k = 0 THEN 1 ELSE IF k = 1 THEN 10 ELSE IF k = 2 THEN 100
            ELSE IF k = 3 THEN 1000 ELSE IF k = 4 THEN 10000
            ELSE IF k = 5 THEN 100000 ELSE IF k = 6 THEN 1000000 ELSE 10000000

\* str(n) of a non-negative int: its decimal characters
RECURSIVE Digits(_)
Digits(n) ==
    IF n < 10 THEN <<DigitChar[n + 1]>>
    ELSE Append(Digits(n \div 10), DigitChar[(n % 10) + 1])

\* strftime('%Y%m%d') of a Python value: a date gives its year, as glibc
\* writes %Y, without leading zeros (fewer than four characters before the
\* year 1000), and two characters each for the month and the day; any other
\* value has no strftime (AttributeError)
Strftime(v) ==
    IF TypeOf(v) # "date" THEN Raise("AttributeError")
    ELSE Ok(PyStr(Digits(v[2] \div 10000)
                  \o [i \in 1..4 |-> DigitChar[((v[2] \div Pow10(4 - i)) % 10) + 1]]))

\* str(n) of an int
StrOfInt(n) == PyStr(IF n < 0 THEN <<"-">> \o Digits(0 - n) ELSE Digits(n))

----------------------------------------------------------------------------
(* core.py: Patient *)

PatientKeys == {"mrn", "first", "last", "birthday", "sex"}

\* Patient.__init__: the five keys are read in turn (KeyError when one is
\* missing), the birthday is parsed, the appointment list starts empty
Patient_init(patient_record) ==
    IF "mrn" \notin DOMAIN patient_record \/ "first" \notin DOMAIN patient_record
       \/ "last" \notin DOMAIN patient_record \/ "birthday" \notin DOMAIN patient_record
    THEN Raise("KeyError")
    ELSE With(Strptime(patient_record["birthday"]), LAMBDA b :
         IF b.exc # "none" THEN b
         ELSE IF "sex" \notin DOMAIN patient_record THEN Raise("KeyError")
         ELSE Ok([mrn |-> patient_record["mrn"],
                  first |-> patient_record["first"],
                  last |-> patient_record["last"],
                  birthday |-> b.val,
                  sex |-> patient_record["sex"],
                  appointments |-> <<>>]))

\* Patient.__eq__ against a dict: the mrn of the patient and the dict's
Patient_eq_dict(p, other) == PyEq(p.mrn, other["mrn"])

\* Patient.__eq__ against a str: the mrn of the patient and the str
Patient_eq_str(p, other) == PyEq(p.mrn, other)

\* Patient.__eq__ against another Patient
Patient_eq_obj(p, other) == PyEq(p.mrn, other.mrn)

\* Patient.__str__: first, last and sex are each asked for title(), which
\* only a str has
Patient_str(p) ==
    IF TypeOf(p.first) # "str" \/ TypeOf(p.last) # "str" \/ TypeOf(p.sex) # "str"
    THEN Raise("AttributeError")
    ELSE Ok(PyStr("Patient"))

\* Patient.to_dict: a copy of __dict__ with the birthday formatted and
\* without the appointments
Patient_to_dict(p) ==
    [k \in DOMAIN p \ {"appointments"} |->
        IF k = "birthday" THEN Strftime(p.birthday).val ELSE p[k]]

----------------------------------------------------------------------------
(* core.py: the four appointment classes *)

ClassNames == <<"PeriodicExam", "LimitedExam", "ComprehensiveExam", "Surgery">>

Classes == {ClassNames[i] : i \in 1..4}

LimitedFields ==
    {"abscess", "crown_lengthening", "cv_exam", "extraction", "frenectomy",
     "fracture", "implant", "oral_path", "periodontitis", "peri_implantitis",
     "postop", "return_", "recession", "re_evaluation", "miscellaneous"}

ComprehensiveFields ==
    {"periodontitis", "executive_health", "recession", "hygiene", "return_",
     "oncology", "implant", "oral_path"}

SurgeryFields ==
    {"biopsy", "extractions", "uncovery", "implant", "crown_lengthening",
     "soft_tissue", "perio", "miscellaneous", "sinus", "peri_implantitis"}

\* the attributes a class's __init__ sets beside date, asa and note
ClassFields(cls) ==
    IF cls = "LimitedExam" THEN LimitedFields
    ELSE IF cls = "ComprehensiveExam" THEN ComprehensiveFields
    ELSE IF cls = "Surgery" THEN SurgeryFields
    ELSE {}

\* <Class>.__init__(exam_dict): exam_dict['date'] (KeyError when missing) is
\* parsed, every other attribute is exam_dict.get(name)
Appointment_init(cls, exam_dict) ==
    IF "date" \notin DOMAIN exam_dict THEN Raise("KeyError")
    ELSE With(Strptime(exam_dict["date"]), LAMBDA d :
         IF d.exc # "none" THEN d
         ELSE Ok([cls |-> cls,
                  dict |-> [k \in {"date", "asa", "note"} \cup ClassFields(cls) |->
                               IF k = "date" THEN d.val ELSE Get(exam_dict, k)]]))

\* a faulty __eq__ for a date that compares the years only
Appointment_eq_year(a, other) ==
    /\ TypeOf(a.dict["date"]) = "date"
    /\ a.dict["date"][2] \div 10000 = other[2] \div 10000

\* <Class>.__eq__(other) for a date: the dates are equal
Appointment_eq_date(a, other) == a.dict["date"] = other

\* a faulty __eq__ for an appointment that compares the dates only
Appointment_eq_anyvariant(a, other) == a.dict["date"] = other.dict["date"]

\* <Class>.__eq__(other) for an appointment: the dates and the class names
\* are equal
Appointment_eq_obj(a, other) ==
    a.dict["date"] = other.dict["date"] /\ a.cls = other.cls

\* a faulty to_dict that leaves out the fields of the variant whose value is
\* None or False
Appointment_to_dict_truthy(a) ==
    With(Strftime(a.dict["date"]), LAMBDA f :
    IF f.exc # "none" THEN [exc |-> f.exc, obj |-> a, val |-> PyNone]
    ELSE With([k \in {h \in DOMAIN a.dict :
                         h \in ClassFields(a.cls) =>
                             a.dict[h] \notin {PyNone, PyBool(FALSE)}} \cup {"_type"} |->
                  IF k = "date" THEN f.val
                  ELSE IF k = "_type" THEN PyStr(a.cls)
                  ELSE a.dict[k]], LAMBDA record :
         [exc |-> "none", obj |-> [a EXCEPT !.dict = record], val |-> record]))

\* _Appointment.to_dict with the subclass's to_dict: record IS self.__dict__,
\* so the formatted date and _type are stored on the object; the subclass
\* returns a copy.  obj is the appointment afterwards.
Appointment_to_dict(a) ==
    With(Strftime(a.dict["date"]), LAMBDA f :
    IF f.exc # "none" THEN [exc |-> f.exc, obj |-> a, val |-> PyNone]
    ELSE With([k \in DOMAIN a.dict \cup {"_type"} |->
                  IF k = "date" THEN f.val
                  ELSE IF k = "_type" THEN PyStr(a.cls)
                  ELSE a.dict[k]], LAMBDA record :
         [exc |-> "none", obj |-> [a EXCEPT !.dict = record], val |-> record]))

\* <Class>.to_stats_dict: to_dict, then note and asa are popped from the copy
Appointment_to_stats_dict(a) ==
    With(Appointment_to_dict(a), LAMBDA r :
    IF r.exc # "none" THEN r
    ELSE [r EXCEPT !.val = [k \in DOMAIN r.val \ {"note", "asa"} |-> r.val[k]]])

----------------------------------------------------------------------------
(* Python lists and dicts *)

\* list.remove(x) where x is the element at index j and equal holds the
\* indices of the elements e with e == x: the first element that is x itself
\* or equal to x is removed
ListRemove(s, j, equal) ==
    With(CHOOSE i \in equal \cup {j} : \A h \in equal \cup {j} : i <= h, LAMBDA i :
    [h \in 1..(Len(s) - 1) |-> IF h < i THEN s[h] ELSE s[h + 1]])

\* patient.appointments.remove(appointment) for the appointment at index j
RemoveAppointment(s, j) ==
    ListRemove(s, j, {i \in 1..Len(s) : Appointment_eq_obj(s[i], s[j])})

\* self.patients.remove(patient) for the patient at index j
RemovePatient(s, j) ==
    ListRemove(s, j, {i \in 1..Len(s) : Patient_eq_obj(s[i], s[j])})

\* {**a, **b}: the keys of both, b's value where both have the key
Merge(a, b) ==
    [k \in DOMAIN a \cup DOMAIN b |-> IF k \in DOMAIN b THEN b[k] ELSE a[k]]

\* the outcome of an operation of Repo or Application: the exception raised
\* ("none" when it returned), the patient list afterwards, the value
\* returned, and the log calls it made
Outcome(exc, ps, ret, log) == [exc |-> exc, patients |-> ps, ret |-> ret, log |-> log]

----------------------------------------------------------------------------
(* The if/elif chain on apt['_type'] that opens add_appointment,           *)
(* modify_appointment and Repo._add_record: the appointment built from the *)
(* record; with an unrecognised _type only a log call is made and the      *)
(* local name exam stays unbound.                                          *)

Construct(apt) ==
    IF "_type" \notin DOMAIN apt THEN [exc |-> "KeyError", bound |-> FALSE, val |-> PyNone]
    ELSE IF \E c \in Classes : apt["_type"] = PyStr(c)
    THEN With(Appointment_init(apt["_type"][2], apt), LAMBDA e :
         [exc |-> e.exc, bound |-> e.exc = "none", val |-> e.val])
    ELSE [exc |-> "none", bound |-> FALSE, val |-> PyNone]

\* a faulty search that finds no patient
FirstPatient_none(ps, apt) == 0

\* the index of the first patient equal to the dict apt, 0 when there is none
FirstPatient(ps, apt) ==
    IF \E i \in 1..Len(ps) : Patient_eq_dict(ps[i], apt)
    THEN CHOOSE i \in 1..Len(ps) :
             /\ Patient_eq_dict(ps[i], apt)
             /\ \A h \in 1..(i - 1) : ~Patient_eq_dict(ps[h], apt)
    ELSE 0

\* the body shared by add_appointment and Repo._add_record after the chain:
\* append to the first patient with the record's mrn, else create the
\* patient; level is the level of the log call of the chain's else branch
AddRecord(ps, apt, level) ==
    With(Construct(apt), LAMBDA e :
    With(IF e.exc = "none" /\ ~e.bound
         THEN <<<<level, "Could not load record due to missing _type">>>>
         ELSE <<>>, LAMBDA unknown :
    IF e.exc # "none" THEN Outcome(e.exc, ps, PyNone, <<>>)
    ELSE IF Len(ps) > 0 /\ "mrn" \notin DOMAIN apt
    THEN Outcome("KeyError", ps, PyNone, unknown)
    ELSE With(IF Len(ps) > 0 THEN FirstPatient(ps, apt) ELSE 0, LAMBDA i :
         IF i > 0
         THEN IF ~e.bound THEN Outcome("UnboundLocalError", ps, PyNone, unknown)
              ELSE Outcome("none",
                           [ps EXCEPT ![i].appointments = Append(@, e.val)],
                           PyNone, <<<<"debug", "appointment added">>>>)
         ELSE With(Patient_init(apt), LAMBDA np :
              IF np.exc # "none" THEN Outcome(np.exc, ps, PyNone, unknown)
              ELSE IF ~e.bound
              THEN Outcome("UnboundLocalError", ps, PyNone, unknown)
              ELSE Outcome("none",
                           Append(ps, [np.val EXCEPT !.appointments = <<e.val>>]),
                           PyNone, <<<<"debug", "appointment added">>>>)))))

----------------------------------------------------------------------------
(* storage.py: Repo *)

\* a faulty _add_record that puts a new patient first in the list
Repo_add_record_front(ps, apt) ==
    With(AddRecord(ps, apt, "critical"), LAMBDA r :
    IF r.exc = "none" /\ Len(r.patients) > Len(ps)
    THEN [r EXCEPT !.patients = <<r.patients[Len(r.patients)]>> \o ps]
    ELSE r)

\* Repo._add_record
Repo_add_record(ps, apt) == AddRecord(ps, apt, "critical")

\* Repo._load_obj: every record in turn; an exception ends the load
RECURSIVE Repo_load_obj(_, _, _)
Repo_load_obj(ps, records, n) ==
    IF n > Len(records) THEN Outcome("none", ps, PyNone, <<>>)
    ELSE With(Repo_add_record(ps, records[n]), LAMBDA r :
         IF r.exc # "none" THEN r
         ELSE With(Repo_load_obj(r.patients, records, n + 1), LAMBDA rest :
              [rest EXCEPT !.log = r.log \o @]))

\* Repo.load on a new Repo: self.patients = [] and the records of the file,
\* between the debug calls of load and _get_from_yaml
Repo_load(records) ==
    With(Repo_load_obj(<<>>, records, 1), LAMBDA r :
    [r EXCEPT !.log =
        <<<<"debug", "load(): instantiated.">>,
          <<"debug", "_get_from_yaml(): Records pulled from records.yaml">>>>
        \o @
        \o IF r.exc = "none"
           THEN <<<<"debug", "load(): Program records loaded in Repo.patients">>>>
           ELSE <<>>])

\* the inner loop of Repo.save for patient i from appointment j on: each
\* appointment's to_dict is merged over the patient's dict.  st is
\* [exc, patients, records].
RECURSIVE SaveAppointments(_, _, _, _)
SaveAppointments(st, i, j, patient_info) ==
    IF j > Len(st.patients[i].appointments) THEN st
    ELSE With(Appointment_to_dict(st.patients[i].appointments[j]), LAMBDA r :
         With([st.patients EXCEPT ![i].appointments[j] = r.obj], LAMBDA ps :
         IF r.exc # "none" THEN [st EXCEPT !.exc = r.exc, !.patients = ps]
         ELSE SaveAppointments(
                  [st EXCEPT !.patients = ps,
                             !.records = Append(@, Merge(patient_info, r.val)),
                             !.log = Append(@, <<"debug", "save(): converted to dict and compiled for saving">>)],
                  i, j + 1, patient_info)))

\* the outer loop of Repo.save from patient i on
RECURSIVE SavePatients(_, _)
SavePatients(st, i) ==
    IF i > Len(st.patients) THEN st
    ELSE With(SaveAppointments(st, i, 1, Patient_to_dict(st.patients[i])), LAMBDA r :
         IF r.exc # "none" THEN r ELSE SavePatients(r, i + 1))

\* Repo.save(patients): [exc, patients, records, log]; records is what
\* _push_to_yaml writes, and nothing is written when to_dict raised
Repo_save(ps) ==
    With(SavePatients([exc |-> "none", patients |-> ps, records |-> <<>>,
                       log |-> <<<<"debug", "save() instantiated.">>>>], 1), LAMBDA r :
    IF r.exc # "none" THEN r
    ELSE [r EXCEPT !.log =
             @ \o <<<<"debug", "_push_to_yaml(): instantiated.">>,
                    <<"debug", "_push_to_yaml(): Records pushed to records.yaml">>,
                    <<"debug", "save(): Program saved">>>>])

----------------------------------------------------------------------------
(* application.py: Application *)

\* Application.__init__: a new Repo loads the file; self.patients is the
\* Repo's list
Application_init(records) ==
    With(Repo_load(records), LAMBDA r :
    [r EXCEPT !.log =
        <<<<"debug", "Repo(): Repo instance instantiated.">>>> \o @
        \o IF r.exc = "none" THEN <<<<"debug", "Application() instantiated.">>>>
           ELSE <<>>])

\* a faulty add_appointment that appends to the first patient of the list
\* without comparing the mrn
add_appointment_first(ps, apt) ==
    IF Len(ps) > 0 /\ Construct(apt).bound
    THEN Outcome("none", [ps EXCEPT ![1].appointments = Append(@, Construct(apt).val)],
                 PyNone, <<<<"debug", "appointment added">>>>)
    ELSE AddRecord(ps, apt, "error")

\* a faulty add_appointment that replaces: the earlier appointments of the
\* patient that equal the new one are dropped
add_appointment_replace(ps, apt) ==
    With(AddRecord(ps, apt, "error"), LAMBDA r :
    IF r.exc # "none" THEN r
    ELSE [r EXCEPT !.patients =
             [i \in 1..Len(r.patients) |->
                 IF r.patients[i].mrn # apt["mrn"] THEN r.patients[i]
                 ELSE With(r.patients[i].appointments, LAMBDA apts :
                      [r.patients[i] EXCEPT !.appointments =
                          SelectSeq(SubSeq(apts, 1, Len(apts) - 1),
                                    LAMBDA a : ~Appointment_eq_obj(a, apts[Len(apts)]))
                          \o <<apts[Len(apts)]>>])]])

\* Application.add_appointment
add_appointment(ps, apt) == AddRecord(ps, apt, "error")

\* the positions <<patient index, appointment index>> in traversal order
\* (patients in list order, each patient's appointments in list order)
RECURSIVE Positions(_, _)
Positions(ps, i) ==
    IF i > Len(ps) THEN <<>>
    ELSE [j \in 1..Len(ps[i].appointments) |-> <<i, j>>] \o Positions(ps, i + 1)

\* the first of the positions pos whose index is in hits, <<0, 0>> when
\* hits is empty
FirstPosition(pos, hits) ==
    IF hits = {} THEN <<0, 0>>
    ELSE pos[CHOOSE n \in hits : \A h \in hits : n <= h]

\* Application.modify_appointment: the first appointment, among the patients
\* equal to apt, that equals the appointment built from apt is removed and
\* the built one appended
modify_appointment(ps, apt) ==
    With(Construct(apt), LAMBDA e :
    With(IF e.exc = "none" /\ ~e.bound
         THEN <<<<"error", "Could not load record due to missing type">>>>
         ELSE <<>>, LAMBDA unknown :
    With(<<<<"error", "modify_appointment(): Patient not found.">>>>, LAMBDA notfound :
    IF e.exc # "none" THEN Outcome(e.exc, ps, PyNone, <<>>)
    ELSE IF Len(ps) > 0 /\ "mrn" \notin DOMAIN apt
    THEN Outcome("KeyError", ps, PyNone, unknown)
    ELSE IF ~e.bound
    THEN \* appointment == exam reads the unbound name exam
         IF \E i \in 1..Len(ps) :
                Patient_eq_dict(ps[i], apt) /\ Len(ps[i].appointments) > 0
         THEN Outcome("UnboundLocalError", ps, PyNone, unknown)
         ELSE Outcome("none", ps, PyNone, unknown \o notfound)
    ELSE With(Positions(ps, 1), LAMBDA pos :
         With(FirstPosition(pos, {n \in 1..Len(pos) :
                  /\ Patient_eq_dict(ps[pos[n][1]], apt)
                  /\ Appointment_eq_obj(ps[pos[n][1]].appointments[pos[n][2]], e.val)}),
              LAMBDA at :
         IF at = <<0, 0>> THEN Outcome("none", ps, PyNone, notfound)
         ELSE IF Patient_str(ps[at[1]]).exc # "none"
         THEN \* the text returned is formatted after the replacement
              Outcome(Patient_str(ps[at[1]]).exc,
                      [ps EXCEPT ![at[1]].appointments =
                          Append(RemoveAppointment(@, at[2]), e.val)],
                      PyNone, <<>>)
         ELSE Outcome("none",
                      [ps EXCEPT ![at[1]].appointments =
                          Append(RemoveAppointment(@, at[2]), e.val)],
                      PyStr("appointment has been updated."), <<>>))))))

\* a faulty delete_apt that removes the patient of the mrn with all the
\* patient's appointments
delete_apt_patient(ps, apt) ==
    Outcome("none", SelectSeq(ps, LAMBDA q : q.mrn # apt["mrn"]), PyNone, <<>>)

\* Application.delete_apt: among the patients whose mrn is apt['mrn'], the
\* first appointment equal to the parsed date is removed
delete_apt(ps, apt) ==
    With(<<<<"error", "delete_apt(): Appointment not found.">>>>, LAMBDA notfound :
    IF Len(ps) > 0 /\ "mrn" \notin DOMAIN apt THEN Outcome("KeyError", ps, PyNone, <<>>)
    ELSE IF ~\E i \in 1..Len(ps) : PyEq(ps[i].mrn, apt["mrn"])
    THEN Outcome("none", ps, PyNone, notfound)
    ELSE IF "date" \notin DOMAIN apt THEN Outcome("KeyError", ps, PyNone, <<>>)
    ELSE With(Strptime(apt["date"]), LAMBDA date_ :
         IF date_.exc # "none" THEN Outcome(date_.exc, ps, PyNone, <<>>)
         ELSE With(Positions(ps, 1), LAMBDA pos :
              With(FirstPosition(pos, {n \in 1..Len(pos) :
                       /\ PyEq(ps[pos[n][1]].mrn, apt["mrn"])
                       /\ Appointment_eq_date(ps[pos[n][1]].appointments[pos[n][2]],
                                              date_.val)}),
                   LAMBDA at :
              IF at = <<0, 0>> THEN Outcome("none", ps, PyNone, notfound)
              ELSE IF TypeOf(ps[at[1]].first) # "str" \/ TypeOf(ps[at[1]].last) # "str"
              THEN \* the log text is formatted after the removal
                   Outcome("AttributeError",
                           [ps EXCEPT ![at[1]].appointments =
                               RemoveAppointment(@, at[2])],
                           PyNone, <<>>)
              ELSE Outcome("none",
                           [ps EXCEPT ![at[1]].appointments =
                               RemoveAppointment(@, at[2])],
                           PyNone,
                           <<<<"debug", "delete_apt(): Appointment has been deleted.">>>>)))))

\* the mrn argument of find_patient and return_patient_records after
\* 'if type(mrn) is int: mrn = str(mrn)'
MrnArg(mrn) == IF TypeOf(mrn) = "int" THEN PyStr(ToString(mrn[2])) ELSE mrn

\* Application.find_patient: the first patient whose mrn is the argument, or
\* None; an argument that is neither str nor int is only logged
find_patient(ps, mrn) ==
    With(MrnArg(mrn), LAMBDA m :
    With(IF TypeOf(m) # "str"
         THEN <<<<"error", "Argument type must be a string or integer.">>>>
         ELSE <<>>, LAMBDA typelog :
    IF \E i \in 1..Len(ps) : PyEq(ps[i].mrn, m)
    THEN With(ps[CHOOSE i \in 1..Len(ps) :
                     /\ PyEq(ps[i].mrn, m)
                     /\ \A h \in 1..(i - 1) : ~PyEq(ps[h].mrn, m)], LAMBDA patient :
         IF Patient_str(patient).exc # "none"
         THEN \* the log text is formatted before the return
              Outcome(Patient_str(patient).exc, ps, PyNone, typelog)
         ELSE Outcome("none", ps, <<"Patient", patient>>,
                      typelog \o <<<<"debug", "find_patient() Return">>>>))
    ELSE Outcome("none", ps, PyNone,
                 typelog \o <<<<"debug", "find_patient(): Patient not found.">>>>)))

\* Application.save: Repo.save of the patient list; recs is what the file
\* holds afterwards
save(ps, recs) ==
    With(Repo_save(ps), LAMBDA r :
    [exc |-> r.exc, patients |-> r.patients, ret |-> PyNone,
     log |-> r.log \o IF r.exc = "none" THEN <<<<"debug", "save()">>>> ELSE <<>>,
     file |-> IF r.exc = "none" THEN r.records ELSE recs])

----------------------------------------------------------------------------
(* application.py: tally_stats *)

\* the truth value of a Python value in 'if date_1 and date_2'
Truthy(v) ==
    IF TypeOf(v) = "None" THEN FALSE
    ELSE IF TypeOf(v) = "bool" THEN v[2]
    ELSE IF TypeOf(v) = "int" THEN v[2] # 0
    ELSE IF TypeOf(v) = "str" THEN Len(v[2]) > 0
    ELSE TRUE

\* a bound of tally_stats: an int becomes its str, a str is parsed, any
\* other value is kept
BoundDate(v) ==
    IF TypeOf(v) = "int" THEN Strptime(StrOfInt(v[2]))
    ELSE IF TypeOf(v) = "str" THEN Strptime(v)
    ELSE Ok(v)

\* a < b when a is a date: a str (or any other value) on the other side is
\* not comparable with a date
DateLt(a, b) ==
    IF TypeOf(a) = "date" /\ TypeOf(b) = "date" THEN Ok(a[2] < b[2])
    ELSE Raise("TypeError")

\* date_1 < appointment.date < date_2, the second comparison only when the
\* first is true
InRange(d1, a, d2) ==
    With(DateLt(d1, a.dict["date"]), LAMBDA lo :
    IF lo.exc # "none" \/ ~lo.val THEN lo ELSE DateLt(a.dict["date"], d2))

\* the loops that fill apts: position n of pos onwards.  st is
\* [exc, patients, apts]; with bounded, only the appointments in range are
\* converted
RECURSIVE Collect(_, _, _, _, _, _)
Collect(st, pos, n, bounded, d1, d2) ==
    IF n > Len(pos) THEN st
    ELSE With(st.patients[pos[n][1]].appointments[pos[n][2]], LAMBDA a :
         With(IF bounded THEN InRange(d1, a, d2) ELSE Ok(TRUE), LAMBDA take :
         IF take.exc # "none" THEN [st EXCEPT !.exc = take.exc]
         ELSE IF ~take.val THEN Collect(st, pos, n + 1, bounded, d1, d2)
         ELSE With(Appointment_to_stats_dict(a), LAMBDA r :
              With([st.patients EXCEPT ![pos[n][1]].appointments[pos[n][2]] = r.obj],
                   LAMBDA ps :
              IF r.exc # "none" THEN [st EXCEPT !.exc = r.exc, !.patients = ps]
              ELSE Collect([st EXCEPT !.patients = ps, !.apts = Append(@, r.val)],
                           pos, n + 1, bounded, d1, d2)))))

\* one pass of 'for k, v in apt.items()' of a branch that tests 'k in probe'
\* and updates target: [exc, dict]
CountKeys(target, probe, apt) ==
    With({k \in DOMAIN apt : apt[k] # PyNone}, LAMBDA K :
    IF \E k \in K : k \in DOMAIN probe /\ k \notin DOMAIN target
    THEN [exc |-> "KeyError", dict |-> target]
    ELSE [exc |-> "none",
          dict |-> [k \in DOMAIN target \cup {h \in K : h \notin DOMAIN probe /\ h # "_type"} |->
                       IF k \in K /\ k \in DOMAIN probe THEN target[k] + 1
                       ELSE IF k \in K /\ k # "_type" THEN 1
                       ELSE target[k]]])

\* the dict that a branch's 'k in ...' test reads, for an appointment of
\* class cls: its own for PeriodicExam and LimitedExam, limited for
\* ComprehensiveExam and Surgery
ProbeOf(cls) == IF cls = "PeriodicExam" THEN "PeriodicExam" ELSE "LimitedExam"

\* the counting loop over apts from n on.  st is [exc, stats], stats maps
\* each class name to its dict
RECURSIVE CountApts(_, _, _)
CountApts(st, apts, n) ==
    IF n > Len(apts) THEN st
    ELSE With(apts[n]["_type"][2], LAMBDA cls :
         With([st.stats EXCEPT ![cls][cls] = @ + 1], LAMBDA bumped :
         With(CountKeys(bumped[cls], bumped[ProbeOf(cls)], apts[n]), LAMBDA r :
         IF r.exc # "none" THEN [st EXCEPT !.exc = r.exc]
         ELSE CountApts([st EXCEPT !.stats = [bumped EXCEPT ![cls] = r.dict]],
                        apts, n + 1))))

\* the four dicts before the counting loop
ZeroStats == [c \in Classes |-> [k \in {c} |-> 0]]

\* Application.tally_stats; the debug call of its first statement comes
\* before anything can raise
tally_stats(ps, date_1, date_2) ==
    With(<<<<"debug", "tally_stats(<date_1>, <date_2>)">>>>, LAMBDA entry :
    With(Truthy(date_1) /\ Truthy(date_2), LAMBDA bounded :
    With(IF bounded THEN BoundDate(date_1) ELSE Ok(date_1), LAMBDA d1 :
    IF d1.exc # "none" THEN Outcome(d1.exc, ps, PyNone, entry)
    ELSE With(IF bounded THEN BoundDate(date_2) ELSE Ok(date_2), LAMBDA d2 :
         IF d2.exc # "none" THEN Outcome(d2.exc, ps, PyNone, entry)
         ELSE With(Collect([exc |-> "none", patients |-> ps, apts |-> <<>>],
                           Positions(ps, 1), 1, bounded, d1.val, d2.val), LAMBDA c :
              IF c.exc # "none" THEN Outcome(c.exc, c.patients, PyNone, entry)
              ELSE With(CountApts([exc |-> "none", stats |-> ZeroStats], c.apts, 1),
                        LAMBDA t :
                   IF t.exc # "none" THEN Outcome(t.exc, c.patients, PyNone, entry)
                   ELSE Outcome("none", c.patients,
                                <<"list", [n \in 1..4 |-> t.stats[ClassNames[n]]]>>,
                                Append(entry, <<"debug", "tally_stats() Return">>))))))))

----------------------------------------------------------------------------
(* application.py: return_patient_records, modify_patient, delete_patient *)

\* a < b for two strs of digit characters (the order of str)
RECURSIVE StrLt(_, _)
StrLt(a, b) ==
    IF Len(b) = 0 THEN FALSE
    ELSE IF Len(a) = 0 THEN TRUE
    ELSE IF a[1] = b[1] THEN StrLt(Tail(a), Tail(b))
    ELSE DigitVal(a[1]) < DigitVal(b[1])

\* list.sort(key=lambda x: x['date'], reverse=True): stable, so records with
\* equal dates keep their order; records 1..n of recs, sorted
RECURSIVE SortByDateDesc(_, _)
SortByDateDesc(recs, n) ==
    IF n = 0 THEN <<>>
    ELSE With(SortByDateDesc(recs, n - 1), LAMBDA sorted :
         \* recs[n] goes before the first record with a smaller date
         With({h \in 1..Len(sorted) : StrLt(sorted[h]["date"][2], recs[n]["date"][2])},
              LAMBDA smaller :
         With(IF smaller # {} THEN CHOOSE h \in smaller : \A g \in smaller : h <= g
              ELSE Len(sorted) + 1, LAMBDA at :
         SubSeq(sorted, 1, at - 1) \o <<recs[n]>> \o SubSeq(sorted, at, Len(sorted)))))

\* 'for record in patient.appointments: apt_records.append(record.to_dict())'
\* for patient i from appointment j on.  st is [exc, patients, records].
RECURSIVE RecordsOf(_, _, _)
RecordsOf(st, i, j) ==
    IF j > Len(st.patients[i].appointments) THEN st
    ELSE With(Appointment_to_dict(st.patients[i].appointments[j]), LAMBDA r :
         With([st.patients EXCEPT ![i].appointments[j] = r.obj], LAMBDA ps :
         IF r.exc # "none" THEN [st EXCEPT !.exc = r.exc, !.patients = ps]
         ELSE RecordsOf([st EXCEPT !.patients = ps, !.records = Append(@, r.val)],
                        i, j + 1)))

\* Patient.__eq__(other) for a Python value that is neither a dict nor a
\* Patient: a str is compared with the mrn, any other value has no mrn
Patient_eq_value(p, other) ==
    IF TypeOf(other) = "str" THEN Ok(Patient_eq_str(p, other))
    ELSE Raise("AttributeError")

\* Application.return_patient_records
return_patient_records(ps, mrn) ==
    With(MrnArg(mrn), LAMBDA m :
    With(<<<<"debug", "return_patient_records(mrn): <mrn>">>>>
         \o IF TypeOf(m) # "str"
            THEN <<<<"error", "Argument type must be a string or integer.">>>>
            ELSE <<>>, LAMBDA typelog :
    IF Len(ps) > 0 /\ TypeOf(m) # "str" THEN Outcome("AttributeError", ps, PyNone, typelog)
    ELSE IF ~\E i \in 1..Len(ps) : Patient_eq_str(ps[i], m)
    THEN Outcome("none", ps, PyNone, typelog \o <<<<"error", "Patient not found. Check MRN.">>>>)
    ELSE With(CHOOSE i \in 1..Len(ps) :
                  /\ Patient_eq_str(ps[i], m)
                  /\ \A h \in 1..(i - 1) : ~Patient_eq_str(ps[h], m), LAMBDA i :
         With(RecordsOf([exc |-> "none", patients |-> ps, records |-> <<>>], i, 1),
              LAMBDA r :
         IF r.exc # "none" THEN Outcome(r.exc, r.patients, PyNone, typelog)
         ELSE Outcome("none", r.patients,
                      <<"tuple", Patient_to_dict(ps[i]),
                        IF Len(r.records) > 1
                        THEN SortByDateDesc(r.records, Len(r.records))
                        ELSE r.records>>,
                      Append(typelog, <<"debug", "return_patient_records(): Returning records">>))))))

\* the loop of modify_patient from index i on, over the list as it is then.
\* person is <<"dict", d>> as passed in and <<"Patient", p>> once the loop
\* has rebound the name to the replacement it built.
RECURSIVE ModifyPatientLoop(_, _, _, _)
ModifyPatientLoop(ps, person, i, log) ==
    IF i > Len(ps)
    THEN Outcome("none", ps, PyNone, log \o <<<<"debug", "modify_patient(): Patient not found.">>>>)
    ELSE IF person[1] = "dict" /\ "mrn" \notin DOMAIN person[2]
    THEN Outcome("KeyError", ps, PyNone, log)
    ELSE IF ~(IF person[1] = "dict" THEN Patient_eq_dict(ps[i], person[2])
              ELSE Patient_eq_obj(ps[i], person[2]))
    THEN ModifyPatientLoop(ps, person, i + 1, log)
    ELSE IF person[1] # "dict"
    THEN \* person[k]: a Patient is not subscriptable
         Outcome("TypeError", ps, PyNone, log)
    ELSE IF ~(PatientKeys \subseteq DOMAIN person[2])
    THEN Outcome("KeyError", ps, PyNone, log)
    ELSE With(Patient_init(person[2]), LAMBDA np :
         IF np.exc # "none" THEN Outcome(np.exc, ps, PyNone, log)
         ELSE With([np.val EXCEPT !.appointments = ps[i].appointments], LAMBDA new :
              ModifyPatientLoop(Append(RemovePatient(ps, i), new),
                                <<"Patient", new>>, i + 1,
                                log \o <<<<"debug", "modify_patient() has made the following changes">>>>)))

\* a faulty modify_patient that does not re-attach the appointments
modify_patient_detached(ps, person) ==
    With(ModifyPatientLoop(ps, <<"dict", person>>, 1, <<>>), LAMBDA r :
    [r EXCEPT !.patients =
        [i \in 1..Len(r.patients) |->
            IF r.patients[i].mrn = person["mrn"]
            THEN [r.patients[i] EXCEPT !.appointments = <<>>]
            ELSE r.patients[i]]])

\* Application.modify_patient
modify_patient(ps, person) == ModifyPatientLoop(ps, <<"dict", person>>, 1, <<>>)

\* the loop of delete_patient from index i on, over the list as it is then;
\* p is <<"dict", d>>, <<"Patient", p>> or a Python value
RECURSIVE DeletePatientLoop(_, _, _, _)
DeletePatientLoop(ps, p, i, log) ==
    IF i > Len(ps)
    THEN IF p[1] = "Patient" /\ Patient_str(p[2]).exc # "none"
         THEN \* the closing log text formats p
              Outcome(Patient_str(p[2]).exc, ps, PyNone, log)
         ELSE Outcome("none", ps, PyNone,
                      log \o <<<<"error", "delete_patient(): has NOT been deleted!">>>>)
    ELSE With(IF p[1] = "dict"
              THEN IF "mrn" \in DOMAIN p[2] THEN Ok(Patient_eq_dict(ps[i], p[2]))
                   ELSE Raise("KeyError")
              ELSE IF p[1] = "Patient" THEN Ok(Patient_eq_obj(ps[i], p[2]))
              ELSE Patient_eq_value(ps[i], p), LAMBDA eq :
         IF eq.exc # "none" THEN Outcome(eq.exc, ps, PyNone, log)
         ELSE IF ~eq.val THEN DeletePatientLoop(ps, p, i + 1, log)
         ELSE IF Patient_str(ps[i]).exc # "none"
         THEN \* the log text is formatted after the removal
              Outcome(Patient_str(ps[i]).exc, RemovePatient(ps, i), PyNone, log)
         ELSE DeletePatientLoop(RemovePatient(ps, i), p, i + 1,
                                log \o <<<<"debug", "delete_patient(): has been deleted!">>>>))

\* a faulty delete_patient that removes the first patient of the list
\* without comparing it with the key
delete_patient_first(ps, p) ==
    Outcome("none", IF Len(ps) > 0 THEN Tail(ps) ELSE ps, PyNone, <<>>)

\* Application.delete_patient
delete_patient(ps, p) == DeletePatientLoop(ps, p, 1, <<>>)

----------------------------------------------------------------------------
(* The inputs the model draws from *)

\* the most appointments the collection holds
MaxAppointments == 3

D20210101 == <<"2", "0", "2", "1", "0", "1", "0", "1">>
D20210601 == <<"2", "0", "2", "1", "0", "6", "0", "1">>
D20211231 == <<"2", "0", "2", "1", "1", "2", "3", "1">>
\* dates before the year 1000
D09830303 == <<"0", "9", "8", "3", "0", "3", "0", "3">>
D09991231 == <<"0", "9", "9", "9", "1", "2", "3", "1">>
\* no thirteenth month: strptime fails on it
D20211301 == <<"2", "0", "2", "1", "1", "3", "0", "1">>

Tom == [mrn |-> PyStr("100"), first |-> PyStr("tom"), last |-> PyStr("wagar"),
        birthday |-> PyStr(<<"1", "9", "8", "3", "0", "3", "0", "3">>),
        sex |-> PyStr("male")]

Thomas == [Tom EXCEPT !.first = PyStr("thomas")]

Ann == [mrn |-> PyStr("200"), first |-> PyStr("ann"), last |-> PyStr("lee"),
        birthday |-> PyStr(<<"2", "0", "0", "0", "0", "2", "2", "9">>),
        sex |-> PyStr("female")]

Zed == [Ann EXCEPT !.mrn = PyStr("300")]

Visit(type, date) == [_type |-> PyStr(type), date |-> PyStr(date)]

\* well-formed records: a patient's fields with an appointment's
TomPeriodic == Merge(Tom, Visit("PeriodicExam", D20210101))
ThomasPeriodic ==
    Merge(Thomas, Merge(Visit("PeriodicExam", D20210101),
                        [asa |-> PyStr("3"), note |-> PyStr("recall")]))
TomSurgery ==
    Merge(Tom, Merge(Visit("Surgery", D20210601),
                     [asa |-> PyStr("2"), note |-> PyNone, biopsy |-> PyBool(TRUE)]))
AnnLimited ==
    Merge(Ann, Merge(Visit("LimitedExam", D20210601), [implant |-> PyBool(TRUE)]))
AnnSurgery ==
    Merge(Ann, Merge(Visit("Surgery", D20210601), [biopsy |-> PyStr("True")]))
AnnComprehensive ==
    Merge(Ann, Merge(Visit("ComprehensiveExam", D20211231),
                     [implant |-> PyBool(TRUE), hygiene |-> PyBool(FALSE)]))

\* a record that has every field of its variant, with a birthday and a date
\* before the year 1000
ZedEarly ==
    Merge([Zed EXCEPT !.birthday = PyStr(D09830303)],
          Merge(Visit("PeriodicExam", D09991231),
                [asa |-> PyStr("1"), note |-> PyStr("recall")]))

WellFormed ==
    {TomPeriodic, ThomasPeriodic, TomSurgery, AnnLimited, AnnSurgery, AnnComprehensive}

\* records the constructors refuse: a date that does not parse, a _type
\* that is no class, no _type at all
BadDate == Merge(Tom, Visit("Surgery", D20211301))
BadType == Merge(Ann, Visit("Cleaning", D20210601))
NoType == [k \in DOMAIN TomPeriodic \ {"_type"} |-> TomPeriodic[k]]

Malformed == {BadDate, BadType, NoType}

Mrns == {PyStr("100"), PyStr("200"), PyStr("300")}

DeleteInputs ==
    {[mrn |-> m, date |-> PyStr(d)] :
        m \in Mrns, d \in {D20210101, D20210601, D20211231}}
    \cup {[mrn |-> PyStr("100"), date |-> PyStr(D20211301)]}

\* the keys of delete_patient: a bare mrn, a record, a Patient; the last two
\* name no patient of the collection
DeleteKeys ==
    {PyStr("100"), <<"dict", Ann>>, <<"Patient", Patient_init(Tom).val>>,
     PyStr("300"), <<"Patient", Patient_init(Zed).val>>}

Bounds == {PyNone, PyInt(20210101), PyDate(20210601), PyStr(D20211231)}

MrnInputs == {PyStr("100"), PyInt(200), PyStr("300"), PyNone}

----------------------------------------------------------------------------
(* One session of the service as a state machine: Application() on the     *)
(* file, then calls in any order, then save(), the last call of a session  *)
(* as in main().  patients is Application.patients and file the records of *)
(* records.yaml.  One call of the session is observed: last is that call   *)
(* and its arguments, pre the patient list before it, out what it raised,  *)
(* returned and logged (for save, the argument recorded is the file as it  *)
(* was); the observed call ends the behaviour.                             *)

TotalAppointments(ps) == Len(Positions(ps, 1))

Call(op, args) == [op |-> op, args |-> args]

Result(r) == [exc |-> r.exc, ret |-> r.ret, log |-> r.log]

NoCall == Call("none", <<>>)

NoResult == [exc |-> "none", ret |-> PyNone, log |-> <<>>]

\* a second Application may run on the same file: patients is the
\* collection of instance 1 and peer that of instance 2; writing[i] is
\* where instance i is in its save() and the records that save has built,
\* Idle outside save(); saved lists the saves that have returned, in the
\* order of their returns
Instances == {1, 2}

Idle == [step |-> "idle", records |-> <<>>, apart |-> TRUE]

Observe(op, args, r) ==
    /\ last' = Call(op, args)
    /\ pre' = patients
    /\ out' = Result(r)

\* a session starts with Application() on the records of the file; when the
\* load raises there is no Application and the session is over
Start(records) ==
    /\ file = records
    /\ patients = Application_init(records).patients
    /\ last = IF Application_init(records).exc = "none" THEN NoCall
              ELSE Call("Application", <<records>>)
    /\ pre = <<>>
    /\ out = Result(Application_init(records))
    /\ peer = <<>>
    /\ writing = [i \in Instances |-> Idle]
    /\ saved = <<>>

\* a call that leaves the file alone, observed or not
Apply(op, args, r) ==
    /\ last = NoCall
    /\ patients' = r.patients
    /\ UNCHANGED <<file, peer, writing, saved>>
    /\ \/ Observe(op, args, r)
       \/ UNCHANGED <<last, pre, out>>

\* the session starts on a file that holds the empty list
Init == Start(<<>>)

AddAppointment ==
    /\ TotalAppointments(patients) < MaxAppointments
    /\ \E apt \in WellFormed \cup Malformed :
           Apply("add_appointment", <<apt>>, add_appointment(patients, apt))

ModifyAppointment ==
    \E apt \in WellFormed \cup Malformed :
        Apply("modify_appointment", <<apt>>, modify_appointment(patients, apt))

ModifyPatient ==
    \E person \in {Thomas, Ann, Zed} :
        Apply("modify_patient", <<person>>, modify_patient(patients, person))

DeleteApt ==
    \E apt \in DeleteInputs :
        Apply("delete_apt", <<apt>>, delete_apt(patients, apt))

DeletePatient ==
    \E p \in DeleteKeys :
        Apply("delete_patient", <<p>>, delete_patient(patients, p))

TallyStats ==
    \E date_1 \in Bounds, date_2 \in Bounds :
        Apply("tally_stats", <<date_1, date_2>>, tally_stats(patients, date_1, date_2))

ReturnPatientRecords ==
    \E mrn \in MrnInputs :
        Apply("return_patient_records", <<mrn>>, return_patient_records(patients, mrn))

FindPatient ==
    \E mrn \in MrnInputs :
        Apply("find_patient", <<mrn>>, find_patient(patients, mrn))

Save ==
    LET r == save(patients, file)
    IN /\ last = NoCall
       /\ patients' = r.patients
       /\ file' = r.file
       /\ UNCHANGED <<peer, writing, saved>>
       /\ Observe("save", <<file>>, r)

Next ==
    \/ AddAppointment
    \/ ModifyAppointment
    \/ ModifyPatient
    \/ DeleteApt
    \/ DeletePatient
    \/ TallyStats
    \/ ReturnPatientRecords
    \/ FindPatient
    \/ Save

Spec == Init /\ [][Next]_vars

----------------------------------------------------------------------------
(* A session that starts on a file of well-formed records: Application()   *)
(* loads it, find_patient reads the collection, save() writes it back.     *)

\* the most records in the file such a session starts on
MaxRecords == 3

RecordLists == UNION {[1..n -> WellFormed \cup {ZedEarly}] : n \in 0..MaxRecords}

InitLoad == \E records \in RecordLists : Start(records)

NextLoad ==
    \/ FindPatient
    \/ Save

SpecLoad == InitLoad /\ [][NextLoad]_vars

----------------------------------------------------------------------------
(* A session that starts on a file that may hold records without a         *)
(* discriminator or with one that names no class.                          *)

FileRecords == WellFormed \cup {BadType, NoType}

AnyRecordLists == UNION {[1..n -> FileRecords] : n \in 0..MaxRecords}

InitLoadAny == \E records \in AnyRecordLists : Start(records)

SpecLoadAny == InitLoadAny /\ [][NextLoad]_vars

----------------------------------------------------------------------------
(* A session of changes: Application() loads a file of well-formed         *)
(* records, then appointments and patients are added, modified and         *)
(* deleted.                                                                *)

\* the files such a session starts on: the empty file, and a file of two
\* patients, interleaved, one of them spelled two ways
SessionFiles == {<<>>, <<TomSurgery, AnnLimited, ThomasPeriodic>>}

InitSession == \E records \in SessionFiles : Start(records)

NextSession ==
    \/ AddAppointment
    \/ ModifyAppointment
    \/ ModifyPatient
    \/ DeleteApt
    \/ DeletePatient

SpecSession == InitSession /\ [][NextSession]_vars

----------------------------------------------------------------------------
(* What the properties below speak of *)

\* the appointment at position pos = <<patient index, appointment index>>
At(ps, pos) == ps[pos[1]].appointments[pos[2]]

\* the calendar date of an appointment: its date attribute, or the date its
\* text denotes once to_dict has stored the text in its place
DateOf(a) ==
    IF TypeOf(a.dict["date"]) = "date" THEN a.dict["date"]
    ELSE Strptime(a.dict["date"]).val

\* s without its element j; s with x put at index h
RemoveAt(s, j) == [h \in 1..(Len(s) - 1) |-> IF h < j THEN s[h] ELSE s[h + 1]]

InsertAt(s, h, x) ==
    [g \in 1..(Len(s) + 1) |-> IF g < h THEN s[g] ELSE IF g = h THEN x ELSE s[g - 1]]

\* the one-to-one correspondences of n records
Correspondences(n) ==
    {f \in [1..n -> 1..n] : \A a, b \in 1..n : f[a] = f[b] => a = b}

\* appointment a has the variant and the date of the flat record rec
SameSlot(a, rec) ==
    a.cls = rec["_type"][2] /\ DateOf(a) = Strptime(rec["date"]).val

\* appointments a and b agree on variant, date, asa, note and variant fields
SameAppointment(a, b) ==
    /\ a.cls = b.cls
    /\ DateOf(a) = DateOf(b)
    /\ \A k \in {"asa", "note"} \cup ClassFields(a.cls) : a.dict[k] = b.dict[k]

\* patients p and q agree on their five fields and on their appointments
SamePatient(p, q) ==
    /\ \A k \in PatientKeys : p[k] = q[k]
    /\ Len(p.appointments) = Len(q.appointments)
    /\ \A j \in 1..Len(p.appointments) :
           SameAppointment(p.appointments[j], q.appointments[j])

\* tally(date_1, date_2) includes appointment a: strictly between the bounds
\* when both are given, always otherwise
Included(a, date_1, date_2) ==
    IF TypeOf(date_1) # "None" /\ TypeOf(date_2) # "None"
    THEN /\ BoundDate(date_1).val[2] < DateOf(a)[2]
         /\ DateOf(a)[2] < BoundDate(date_2).val[2]
    ELSE TRUE

\* the positions of the included appointments of variant cls
IncludedOf(ps, cls, date_1, date_2) ==
    With(Positions(ps, 1), LAMBDA pos :
    {n \in 1..Len(pos) : /\ At(ps, pos[n]).cls = cls
                         /\ Included(At(ps, pos[n]), date_1, date_2)})

\* a field value that counts as a procedure done: neither null nor false
Done(v) == TypeOf(v) # "None" /\ ~(TypeOf(v) = "bool" /\ ~v[2])

\* the bucket of variant cls as the specification describes it
BucketOf(ps, cls, date_1, date_2) ==
    With(Positions(ps, 1), LAMBDA pos :
    With(IncludedOf(ps, cls, date_1, date_2), LAMBDA inc :
    [k \in {cls} \cup {f \in ClassFields(cls) :
                          \E n \in inc : Done(At(ps, pos[n]).dict[f])} |->
        IF k = cls THEN Cardinality(inc)
        ELSE Cardinality({n \in inc : Done(At(ps, pos[n]).dict[k])})]))

\* the collection ps without the appointments of the variants other than cls
OnlyVariant(ps, cls) ==
    [i \in 1..Len(ps) |->
        [ps[i] EXCEPT !.appointments = SelectSeq(@, LAMBDA a : a.cls = cls)]]

\* the first record of R with the given mrn
FirstWithMrn(R, mrn) ==
    R[CHOOSE a \in 1..Len(R) :
          R[a]["mrn"] = mrn /\ \A b \in 1..(a - 1) : R[b]["mrn"] # mrn]

----------------------------------------------------------------------------
(* The properties *)

\* C1: for every patient P with at least one appointment, save() of the
\* collection [P] returns, and loading the records it wrote into a new
\* repository gives exactly one patient, with P's mrn, first, last, birthday
\* and sex and P's appointments (same count, variant, date, asa, note and
\* variant fields).
C1_RoundTrip ==
    (last.op = "save" /\ Len(pre) = 1 /\ Len(pre[1].appointments) >= 1) =>
        /\ out.exc = "none"
        /\ Repo_load(file).exc = "none"
        /\ Len(Repo_load(file).patients) = 1
        /\ SamePatient(Repo_load(file).patients[1], pre[1])

\* C2: loading a list R of well-formed records and saving the
\* collection writes one record per record of R, each equal, field for
\* field, to its corresponding record of R.
C2_SameFields ==
    last.op = "save" =>
        /\ out.exc = "none"
        /\ Len(file) = Len(last.args[1])
        /\ \E f \in Correspondences(Len(file)) :
               \A n \in 1..Len(file) : file[f[n]] = last.args[1][n]

\* C3: after add_appointment(record) returns for a well-formed record,
\* find_patient(record.mrn) returns a Patient, and that patient holds an
\* appointment with the record's variant and date.
C3_FindAfterAdd ==
    (last.op = "add_appointment" /\ last.args[1] \in WellFormed /\ out.exc = "none") =>
        With(find_patient(patients, last.args[1]["mrn"]), LAMBDA f :
        /\ f.exc = "none"
        /\ f.ret[1] = "Patient"
        /\ \E j \in 1..Len(f.ret[2].appointments) :
               /\ f.ret[2].appointments[j].cls = last.args[1]["_type"][2]
               /\ f.ret[2].appointments[j].dict["date"]
                      = Strptime(last.args[1]["date"]).val)

\* a record has been added for the second of two patients, whose mrn was
\* known and who held an appointment already
C3_Witness ==
    /\ last.op = "add_appointment"
    /\ last.args[1] \in WellFormed
    /\ out.exc = "none"
    /\ Len(pre) = 2
    /\ pre[2].mrn = last.args[1]["mrn"]
    /\ Len(patients) = 2
    /\ Len(patients[2].appointments) = Len(pre[2].appointments) + 1

\* C4: when the patient with the record's mrn holds an appointment with the
\* record's date and variant, modify_appointment(record) replaces one such
\* entry by the appointment built from the record: the patient's list keeps
\* its length, the entry is gone, the new appointment is in the list, and
\* everything else is as before.
C4_Replaces ==
    (/\ last.op = "modify_appointment"
     /\ last.args[1] \in WellFormed
     /\ \E i \in 1..Len(pre) : \E j \in 1..Len(pre[i].appointments) :
            pre[i].mrn = last.args[1]["mrn"]
            /\ SameSlot(pre[i].appointments[j], last.args[1])) =>
        \E i \in 1..Len(pre) : \E j, h \in 1..Len(pre[i].appointments) :
            /\ pre[i].mrn = last.args[1]["mrn"]
            /\ SameSlot(pre[i].appointments[j], last.args[1])
            /\ patients = [pre EXCEPT ![i].appointments =
                              InsertAt(RemoveAt(@, j), h, Construct(last.args[1]).val)]

\* C5: when the patient with the given mrn holds an appointment on the given
\* date, delete_apt removes exactly one appointment of that patient, one
\* dated that date, and leaves everything else as before.
C5_RemovesOne ==
    (/\ last.op = "delete_apt"
     /\ Strptime(last.args[1]["date"]).exc = "none"
     /\ \E i \in 1..Len(pre) : \E j \in 1..Len(pre[i].appointments) :
            pre[i].mrn = last.args[1]["mrn"]
            /\ DateOf(pre[i].appointments[j]) = Strptime(last.args[1]["date"]).val) =>
        \E i \in 1..Len(pre) : \E j \in 1..Len(pre[i].appointments) :
            /\ pre[i].mrn = last.args[1]["mrn"]
            /\ DateOf(pre[i].appointments[j]) = Strptime(last.args[1]["date"]).val
            /\ patients = [pre EXCEPT ![i].appointments = RemoveAt(@, j)]

\* C6: delete_apt with an mrn no patient has, or with a well-formed date on
\* which the patient of that mrn has no appointment, raises nothing, logs
\* that the appointment was not found, and leaves the collection as it was.
C6_NotFound ==
    (/\ last.op = "delete_apt"
     /\ \/ \A i \in 1..Len(pre) : pre[i].mrn # last.args[1]["mrn"]
        \/ /\ Strptime(last.args[1]["date"]).exc = "none"
           /\ \A i \in 1..Len(pre) : \A j \in 1..Len(pre[i].appointments) :
                  pre[i].mrn = last.args[1]["mrn"] =>
                      DateOf(pre[i].appointments[j]) # Strptime(last.args[1]["date"]).val) =>
        /\ out.exc = "none"
        /\ out.ret = PyNone
        /\ out.log = <<<<"error", "delete_apt(): Appointment not found.">>>>
        /\ patients = pre

\* delete_apt has been called for a patient who holds appointments, none of
\* them on the date, while another patient holds one on that date
C6_Witness ==
    /\ last.op = "delete_apt"
    /\ Strptime(last.args[1]["date"]).exc = "none"
    /\ out.log = <<<<"error", "delete_apt(): Appointment not found.">>>>
    /\ \E i, g \in 1..Len(pre) :
           /\ pre[i].mrn = last.args[1]["mrn"]
           /\ Len(pre[i].appointments) > 0
           /\ \A j \in 1..Len(pre[i].appointments) :
                  DateOf(pre[i].appointments[j]) # Strptime(last.args[1]["date"]).val
           /\ pre[g].mrn # last.args[1]["mrn"]
           /\ \E j \in 1..Len(pre[g].appointments) :
                  DateOf(pre[g].appointments[j]) = Strptime(last.args[1]["date"]).val

\* C7: tally_stats(date_1, date_2) returns, and the counter of each variant
\* is the number of that variant's appointments dated strictly between the
\* bounds when both are given, and of all its appointments otherwise.
C7_CountsInRange ==
    last.op = "tally_stats" =>
        /\ out.exc = "none"
        /\ \A n \in 1..4 :
               out.ret[2][n][ClassNames[n]]
                   = Cardinality(IncludedOf(pre, ClassNames[n], last.args[1], last.args[2]))

\* C7, of the calls that return: whenever tally_stats returns, the counter
\* of each variant is the number of its included appointments.
C7_CountsWhenReturned ==
    (last.op = "tally_stats" /\ out.exc = "none") =>
        \A n \in 1..4 :
            out.ret[2][n][ClassNames[n]]
                = Cardinality(IncludedOf(pre, ClassNames[n], last.args[1], last.args[2]))

\* C8: each bucket tally_stats returns maps its variant name to the number
\* of included appointments of the variant and each field of the variant to
\* the number of those in which it is neither null nor false; a field with
\* no occurrence is absent and there is no other key.
C8_Buckets ==
    (last.op = "tally_stats" /\ out.exc = "none") =>
        \A n \in 1..4 :
            out.ret[2][n] = BucketOf(pre, ClassNames[n], last.args[1], last.args[2])

\* C9: the bucket tally_stats returns for a variant is the bucket it returns
\* for the collection without the appointments of the other variants.
C9_OwnVariantOnly ==
    (last.op = "tally_stats" /\ out.exc = "none") =>
        \A n \in 1..4 :
            With(tally_stats(OnlyVariant(pre, ClassNames[n]), last.args[1], last.args[2]),
                 LAMBDA t :
            /\ t.exc = "none"
            /\ t.ret[2][n] = out.ret[2][n])

\* C10: when tally_stats returns, every patient and every appointment is as
\* it was before the call.
C10_Unchanged ==
    (last.op = "tally_stats" /\ out.exc = "none") => patients = pre

\* the flat dictionary of appointment a: _type, date as text, asa, note and
\* the fields of its variant
FlatOf(a) ==
    [k \in {"_type", "date", "asa", "note"} \cup ClassFields(a.cls) |->
        IF k = "_type" THEN PyStr(a.cls)
        ELSE IF k = "date" THEN Strftime(DateOf(a)).val
        ELSE a.dict[k]]

\* the flat attributes of patient p
FlatPatient(p) ==
    [k \in PatientKeys |-> IF k = "birthday" THEN Strftime(p.birthday).val ELSE p[k]]

\* recs holds one flat dictionary per appointment of apts, most recent
\* first, those of equal date in the order of apts
SortedRecords(recs, apts) ==
    /\ Len(recs) = Len(apts)
    /\ \E f \in Correspondences(Len(recs)) :
           /\ \A n \in 1..Len(recs) : recs[n] = FlatOf(apts[f[n]])
           /\ \A n, m \in 1..Len(recs) :
                  n < m => \/ DateOf(apts[f[n]])[2] > DateOf(apts[f[m]])[2]
                           \/ /\ DateOf(apts[f[n]])[2] = DateOf(apts[f[m]])[2]
                              /\ f[n] < f[m]

\* C11: tally_stats returns, for every collection and every choice of
\* bounds, a list of four buckets in the order PeriodicExam, LimitedExam,
\* ComprehensiveExam, Surgery, and the bucket of a variant with no included
\* appointment holds only the variant's name, mapped to 0.
C11_FourBuckets ==
    last.op = "tally_stats" =>
        /\ out.exc = "none"
        /\ out.ret[1] = "list"
        /\ Len(out.ret[2]) = 4
        /\ \A n \in 1..4 :
               /\ ClassNames[n] \in DOMAIN out.ret[2][n]
               /\ IncludedOf(pre, ClassNames[n], last.args[1], last.args[2]) = {} =>
                      out.ret[2][n] = [k \in {ClassNames[n]} |-> 0]

\* C11, of the calls that return: whenever tally_stats returns, it returns
\* the four buckets in order and the bucket of a variant with no included
\* appointment holds only the variant's name, mapped to 0.
C11_FourBucketsWhenReturned ==
    (last.op = "tally_stats" /\ out.exc = "none") =>
        /\ out.ret[1] = "list"
        /\ Len(out.ret[2]) = 4
        /\ \A n \in 1..4 :
               /\ ClassNames[n] \in DOMAIN out.ret[2][n]
               /\ IncludedOf(pre, ClassNames[n], last.args[1], last.args[2]) = {} =>
                      out.ret[2][n] = [k \in {ClassNames[n]} |-> 0]

\* C12: for the mrn of a patient of the collection, return_patient_records
\* returns the patient's flat attributes and one flat dictionary per
\* appointment of the patient, most recent date first, appointments of equal
\* date in their order of insertion.
C12_RecordsByDateDesc ==
    (/\ last.op = "return_patient_records"
     /\ \E i \in 1..Len(pre) : pre[i].mrn = MrnArg(last.args[1])) =>
        /\ out.exc = "none"
        /\ \E i \in 1..Len(pre) :
               /\ pre[i].mrn = MrnArg(last.args[1])
               /\ out.ret[2] = FlatPatient(pre[i])
               /\ SortedRecords(out.ret[3], pre[i].appointments)

\* C12, of the calls that return: whenever return_patient_records returns
\* for the mrn of a patient, it returns the patient's flat attributes and
\* the appointments' flat dictionaries in that order.
C12_OrderWhenReturned ==
    (/\ last.op = "return_patient_records"
     /\ out.exc = "none"
     /\ \E i \in 1..Len(pre) : pre[i].mrn = MrnArg(last.args[1])) =>
        \E i \in 1..Len(pre) :
            /\ pre[i].mrn = MrnArg(last.args[1])
            /\ out.ret[2] = FlatPatient(pre[i])
            /\ SortedRecords(out.ret[3], pre[i].appointments)

\* the mrn a key of delete_patient names: a record's, a Patient's, or the
\* bare mrn itself
KeyMrn(p) ==
    IF p[1] = "dict" THEN p[2]["mrn"]
    ELSE IF p[1] = "Patient" THEN p[2].mrn
    ELSE p

\* C13: modify_patient(record) for the mrn of a patient of the collection
\* leaves exactly one patient with that mrn, who carries the record's first,
\* last, birthday and sex and owns the appointments of the replaced patient
\* in the same order; the number of patients is the same and every other
\* patient is as before.
C13_PatientReplaced ==
    (/\ last.op = "modify_patient"
     /\ \E h \in 1..Len(pre) : pre[h].mrn = last.args[1]["mrn"]) =>
        /\ Len(patients) = Len(pre)
        /\ Cardinality({i \in 1..Len(patients) :
                           patients[i].mrn = last.args[1]["mrn"]}) = 1
        /\ \A i \in 1..Len(patients) :
               patients[i].mrn = last.args[1]["mrn"] =>
                   /\ \A k \in {"first", "last", "sex"} : patients[i][k] = last.args[1][k]
                   /\ patients[i].birthday = Strptime(last.args[1]["birthday"]).val
                   /\ \E h \in 1..Len(pre) :
                          /\ pre[h].mrn = last.args[1]["mrn"]
                          /\ patients[i].appointments = pre[h].appointments
        /\ \A h \in 1..Len(pre) :
               pre[h].mrn # last.args[1]["mrn"] =>
                   \E i \in 1..Len(patients) : patients[i] = pre[h]

\* modify_patient has renamed the first of two patients, who held two
\* appointments; the loop went on over the changed list and ended on the
\* replacement with a TypeError
C13_Witness ==
    /\ last.op = "modify_patient"
    /\ last.args[1] = Thomas
    /\ Len(pre) = 2
    /\ pre[1].mrn = PyStr("100")
    /\ pre[1].first = PyStr("tom")
    /\ Len(pre[1].appointments) = 2
    /\ patients[1] = pre[2]
    /\ patients[2].first = PyStr("thomas")
    /\ patients[2].appointments = pre[1].appointments
    /\ out.exc = "TypeError"

\* C14: delete_patient(key), for a key that is a Patient, a record with an
\* mrn or a bare mrn, removes the patient whose mrn is the key's and no
\* other, every other patient staying as it was; when no patient has that
\* mrn the collection stays as it was and nothing is raised.
C14_RemovesMatch ==
    last.op = "delete_patient" =>
        /\ patients = SelectSeq(pre, LAMBDA q : q.mrn # KeyMrn(last.args[1]))
        /\ Len(patients) >= Len(pre) - 1
        /\ (\A h \in 1..Len(pre) : pre[h].mrn # KeyMrn(last.args[1])) =>
               (out.exc = "none" /\ patients = pre)

\* delete_patient has been called with a Patient for the first of two
\* patients, who held an appointment, and the other patient is what is left
C14_Witness ==
    /\ last.op = "delete_patient"
    /\ last.args[1][1] = "Patient"
    /\ Len(pre) = 2
    /\ pre[1].mrn = last.args[1][2].mrn
    /\ Len(pre[1].appointments) >= 1
    /\ out.exc = "none"
    /\ patients = <<pre[2]>>

\* C15: find_patient(mrn) for a str or an int raises nothing and returns
\* the patient whose mrn is the str, or the decimal text of the int, or None
\* when there is none; for an argument of any other type it raises.
C15_FindPatient ==
    last.op = "find_patient" =>
        IF TypeOf(last.args[1]) \in {"str", "int"}
        THEN /\ out.exc = "none"
             /\ \/ /\ out.ret = PyNone
                   /\ \A i \in 1..Len(pre) : pre[i].mrn # MrnArg(last.args[1])
                \/ /\ out.ret[1] = "Patient"
                   /\ out.ret[2].mrn = MrnArg(last.args[1])
                   /\ \E i \in 1..Len(pre) : pre[i] = out.ret[2]
        ELSE out.exc # "none"

\* C15, of str and int arguments: find_patient raises nothing and returns
\* the patient with the mrn, or None when there is none.
C15_FindWellTyped ==
    (last.op = "find_patient" /\ TypeOf(last.args[1]) \in {"str", "int"}) =>
        /\ out.exc = "none"
        /\ \/ /\ out.ret = PyNone
              /\ \A i \in 1..Len(pre) : pre[i].mrn # MrnArg(last.args[1])
           \/ /\ out.ret[1] = "Patient"
              /\ out.ret[2].mrn = MrnArg(last.args[1])
              /\ \E i \in 1..Len(pre) : pre[i] = out.ret[2]

\* C16: in every state reached by a load followed by add_appointment,
\* modify_appointment, modify_patient, delete_apt and delete_patient in any
\* order, no two patients have the same mrn, and a call leaves every
\* patient it keeps with the mrn it had: add_appointment, modify_appointment
\* and delete_apt keep each patient in its place with its mrn,
\* modify_patient keeps the mrns of the collection, delete_patient leaves
\* only patients that were there.
C16_UniqueMrn ==
    /\ \A i, j \in 1..Len(patients) : patients[i].mrn = patients[j].mrn => i = j
    /\ last.op \in {"add_appointment", "modify_appointment", "delete_apt"} =>
           /\ Len(patients) >= Len(pre)
           /\ \A i \in 1..Len(pre) : patients[i].mrn = pre[i].mrn
    /\ last.op = "modify_patient" =>
           /\ Len(patients) = Len(pre)
           /\ {patients[i].mrn : i \in 1..Len(patients)} = {pre[i].mrn : i \in 1..Len(pre)}
    /\ last.op = "delete_patient" =>
           \A i \in 1..Len(patients) : \E h \in 1..Len(pre) : patients[i] = pre[h]

\* a file that spells the patient of one mrn two ways has been loaded as two
\* patients, and add_appointment with a record of the known mrn and another
\* first name has added to the patient instead of creating one
C16_Witness ==
    /\ file = <<TomSurgery, AnnLimited, ThomasPeriodic>>
    /\ last.op = "add_appointment"
    /\ out.exc = "none"
    /\ Len(pre) = 2
    /\ Len(patients) = 2
    /\ \E i \in 1..2 :
           /\ pre[i].mrn = last.args[1]["mrn"]
           /\ pre[i].first # last.args[1]["first"]
           /\ patients[i].first = pre[i].first
           /\ Len(patients[i].appointments) = Len(pre[i].appointments) + 1

\* the bare dates an appointment is compared with
BareDates == {PyDate(20210101), PyDate(20210601), PyDate(20211231)}

\* the appointments of the collection ps, and those built from the
\* well-formed records
Held(ps) == {At(ps, Positions(ps, 1)[n]) : n \in 1..TotalAppointments(ps)}

Built == {Construct(r).val : r \in WellFormed}

\* the record r has no discriminator, or one that names none of the four
\* variants
Corrupt(r) == "_type" \notin DOMAIN r \/ r["_type"] \notin {PyStr(c) : c \in Classes}

\* C17: add_appointment with a well-formed record whose variant and date the
\* patient of its mrn already holds adds one appointment of that variant and
\* date to that patient, keeps the earlier entries where they were, and
\* leaves the patient's mrn, first, last, birthday and sex, and every other
\* patient, as they were.
C17_AppendsDuplicate ==
    (/\ last.op = "add_appointment"
     /\ last.args[1] \in WellFormed
     /\ \E i \in 1..Len(pre) : \E j \in 1..Len(pre[i].appointments) :
            /\ pre[i].mrn = last.args[1]["mrn"]
            /\ SameSlot(pre[i].appointments[j], last.args[1])) =>
        /\ out.exc = "none"
        /\ Len(patients) = Len(pre)
        /\ \A i \in 1..Len(pre) :
               IF pre[i].mrn # last.args[1]["mrn"] THEN patients[i] = pre[i]
               ELSE /\ \A k \in PatientKeys : patients[i][k] = pre[i][k]
                    /\ Len(patients[i].appointments) = Len(pre[i].appointments) + 1
                    /\ \A j \in 1..Len(pre[i].appointments) :
                           patients[i].appointments[j] = pre[i].appointments[j]
                    /\ SameSlot(patients[i].appointments[Len(patients[i].appointments)],
                                last.args[1])

\* a record that spells the first name another way has been added for a
\* patient who held an appointment of its variant and date: the patient
\* holds both and keeps the first name
C17_Witness ==
    /\ last.op = "add_appointment"
    /\ last.args[1] = ThomasPeriodic
    /\ out.exc = "none"
    /\ Len(pre) = 1
    /\ pre[1].first = PyStr("tom")
    /\ Len(pre[1].appointments) = 1
    /\ SameSlot(pre[1].appointments[1], ThomasPeriodic)
    /\ Len(patients) = 1
    /\ patients[1].first = PyStr("tom")
    /\ Len(patients[1].appointments) = 2
    /\ patients[1].appointments[2].dict["note"] = PyStr("recall")

\* C18: in every state, an appointment of the collection equals another
\* appointment (of the collection or newly built from a record) exactly
\* when both have the same variant and the same date, and equals a bare date
\* exactly when that is its date.
C18_Equality ==
    \A a \in Held(patients) :
        /\ \A b \in Held(patients) \cup Built :
               /\ Appointment_eq_obj(a, b) <=> (a.cls = b.cls /\ DateOf(a) = DateOf(b))
               /\ Appointment_eq_obj(b, a) <=> (a.cls = b.cls /\ DateOf(a) = DateOf(b))
        /\ \A d \in BareDates : Appointment_eq_date(a, d) <=> DateOf(a) = d

\* C19: add_appointment and modify_appointment with a record whose date
\* does not parse raise ValueError, with a record whose discriminator is
\* absent or names no variant they raise too, and in both cases the
\* collection is left as it was.
C19_Rejects ==
    (last.op \in {"add_appointment", "modify_appointment"} /\ last.args[1] \in Malformed) =>
        /\ patients = pre
        /\ IF Corrupt(last.args[1]) THEN out.exc # "none" ELSE out.exc = "ValueError"

\* C19, of the collection: add_appointment and modify_appointment with a
\* record whose date does not parse or whose discriminator is absent or
\* names no variant leave the collection as it was.
C19_CollectionKept ==
    (last.op \in {"add_appointment", "modify_appointment"} /\ last.args[1] \in Malformed) =>
        patients = pre

\* C20: when one record of the file has no discriminator or one that names
\* no variant, the load does not raise and the collection holds what the
\* other records of the file, before and after it, load to.
C20_LoadSkips ==
    (/\ last.op \in {"none", "Application"}
     /\ Cardinality({n \in 1..Len(file) : Corrupt(file[n])}) = 1) =>
        /\ out.exc = "none"
        /\ patients = Repo_load(SelectSeq(file, LAMBDA r : ~Corrupt(r))).patients

\* the mrns of records 1..n of R, each once, in the order of first occurrence
RECURSIVE FirstMrns(_, _)
FirstMrns(R, n) ==
    IF n = 0 THEN <<>>
    ELSE With(FirstMrns(R, n - 1), LAMBDA ms :
         IF \E h \in 1..Len(ms) : ms[h] = R[n]["mrn"] THEN ms
         ELSE Append(ms, R[n]["mrn"]))

\* appointment a is the one the flat record r describes: r's variant and
\* date, and for asa, note and the variant's fields r's value, or None
DescribedBy(a, r) ==
    /\ a.cls = r["_type"][2]
    /\ a.dict = [k \in {"date", "asa", "note"} \cup ClassFields(a.cls) |->
                    IF k = "date" THEN Strptime(r["date"]).val ELSE Get(r, k)]

\* the mrns of the patients of ps
MrnsOf(ps) == {ps[i].mrn : i \in 1..Len(ps)}

\* C21: save returns and writes exactly one flat record per appointment, in
\* patient order and within a patient in appointment order, each record
\* the patient's mrn, first, last, birthday as text and sex merged with the
\* appointment's flat dictionary; a patient without appointments has no
\* record and is not among the patients a load of the file gives.
C21_OneRecordPerAppointment ==
    last.op = "save" =>
        /\ out.exc = "none"
        /\ Len(file) = TotalAppointments(pre)
        /\ \A n \in 1..Len(file) :
               file[n] = Merge(FlatPatient(pre[Positions(pre, 1)[n][1]]),
                               FlatOf(At(pre, Positions(pre, 1)[n])))
        /\ \A i \in 1..Len(pre) :
               Len(pre[i].appointments) = 0 => pre[i].mrn \notin MrnsOf(Repo_load(file).patients)

\* C21, of the saves that return: whenever save returns, the file holds one
\* flat record per appointment in traversal order, and a patient without
\* appointments is not among the patients a load of the file gives.
C21_WhenWritten ==
    (last.op = "save" /\ out.exc = "none") =>
        /\ Len(file) = TotalAppointments(pre)
        /\ \A n \in 1..Len(file) :
               file[n] = Merge(FlatPatient(pre[Positions(pre, 1)[n][1]]),
                               FlatOf(At(pre, Positions(pre, 1)[n])))
        /\ \A i \in 1..Len(pre) :
               Len(pre[i].appointments) = 0 => pre[i].mrn \notin MrnsOf(Repo_load(file).patients)

\* C22: the load of a list of flat records gives one patient per distinct
\* mrn, in the order in which the mrns first occur; each patient has the
\* first, last, birthday and sex of the first record with its mrn and, in
\* record order, the appointments of all records with its mrn.
C22_LoadGroups ==
    last.op # "save" =>
        /\ Len(patients) = Len(FirstMrns(file, Len(file)))
        /\ \A i \in 1..Len(patients) :
               /\ patients[i].mrn = FirstMrns(file, Len(file))[i]
               /\ \A k \in {"first", "last", "sex"} :
                      patients[i][k] = FirstWithMrn(file, patients[i].mrn)[k]
               /\ patients[i].birthday
                      = Strptime(FirstWithMrn(file, patients[i].mrn)["birthday"]).val
               /\ Len(patients[i].appointments)
                      = Len(SelectSeq(file, LAMBDA r : r["mrn"] = patients[i].mrn))
               /\ \A j \in 1..Len(patients[i].appointments) :
                      DescribedBy(patients[i].appointments[j],
                                  SelectSeq(file, LAMBDA r : r["mrn"] = patients[i].mrn)[j])

\* a file of three records has been loaded: the first and the third are of
\* one mrn and spell the first name two ways, the second is of another mrn
C22_Witness ==
    /\ last = NoCall
    /\ file = <<ThomasPeriodic, AnnComprehensive, TomSurgery>>
    /\ Len(patients) = 2
    /\ patients[1].first = PyStr("thomas")
    /\ Len(patients[1].appointments) = 2
    /\ patients[1].appointments[2].cls = "Surgery"
    /\ patients[2].mrn = PyStr("200")

\* C23: add_appointment, modify_appointment, modify_patient, delete_apt,
\* tally_stats and return_patient_records leave in the collection a patient
\* of every mrn that was there; delete_apt keeps every patient in place, a
\* patient whose last appointment it removed with no appointments.
C23_OnlyDeletePatientRemoves ==
    /\ last.op \in {"add_appointment", "modify_appointment", "modify_patient",
                    "delete_apt", "tally_stats", "return_patient_records"} =>
           MrnsOf(pre) \subseteq MrnsOf(patients)
    /\ last.op = "delete_apt" =>
           /\ Len(patients) = Len(pre)
           /\ \A i \in 1..Len(pre) :
                  /\ patients[i].mrn = pre[i].mrn
                  /\ Len(patients[i].appointments) >= Len(pre[i].appointments) - 1

\* delete_apt has removed the only appointment of the first of two
\* patients, who is still first in the collection and holds none
C23_Witness ==
    /\ last.op = "delete_apt"
    /\ Len(pre) = 2
    /\ Len(pre[1].appointments) = 1
    /\ pre[1].mrn = last.args[1]["mrn"]
    /\ Len(patients) = 2
    /\ patients[1].mrn = pre[1].mrn
    /\ patients[1].appointments = <<>>
    /\ patients[2] = pre[2]

\* the flat dictionary d shows the appointment fields of the source record
\* r: every field of r's variant is a key of d, with r's value when r sets
\* it and null when r does not, and so are asa and note
ShowsFields(d, r) ==
    /\ {"asa", "note"} \cup ClassFields(r["_type"][2]) \subseteq DOMAIN d
    /\ \A k \in {"asa", "note"} \cup ClassFields(r["_type"][2]) : d[k] = Get(r, k)

\* the appointment add_appointment(rec) has appended for rec's mrn
Added(ps, rec) ==
    With(CHOOSE i \in 1..Len(ps) : ps[i].mrn = rec["mrn"], LAMBDA i :
    ps[i].appointments[Len(ps[i].appointments)])

\* C24 as stated: the flat dictionary of an appointment, and the record
\* save writes for it, has a field of the variant as a key only when the
\* value is truthy, and an unset asa or note is null.
C24_FlagsOnlyWhenTruthy ==
    /\ (last.op = "add_appointment" /\ last.args[1] \in WellFormed /\ out.exc = "none") =>
           With(Appointment_to_dict(Added(patients, last.args[1])).val, LAMBDA d :
           /\ \A k \in ClassFields(last.args[1]["_type"][2]) :
                  k \in DOMAIN d => Done(d[k])
           /\ \A k \in {"asa", "note"} \ DOMAIN last.args[1] : d[k] = PyNone)
    /\ (last.op = "save" /\ out.exc = "none") =>
           \A n \in 1..Len(file) : \A k \in ClassFields(file[n]["_type"][2]) :
               k \in DOMAIN file[n] => Done(file[n][k])

\* C24, amended: the flat dictionary of an appointment, and the record save
\* writes for it, has every field of the variant as a key, with the value
\* of the source record when the record sets the field and null when it
\* does not; an unset asa or note is null, never a default text.
C24_FlagsKept ==
    /\ (last.op = "add_appointment" /\ last.args[1] \in WellFormed /\ out.exc = "none") =>
           ShowsFields(Appointment_to_dict(Added(patients, last.args[1])).val,
                       last.args[1])
    /\ (last.op = "save" /\ out.exc = "none") =>
           \A n \in 1..Len(file) : \E r \in WellFormed :
               /\ r["_type"] = file[n]["_type"]
               /\ r["date"] = file[n]["date"]
               /\ r["mrn"] = file[n]["mrn"]
               /\ ShowsFields(file[n], r)

\* a ComprehensiveExam whose record sets implant to True and hygiene to
\* False, and neither asa nor oncology, has been added and then written
C24_Witness ==
    /\ last.op = "save"
    /\ out.exc = "none"
    /\ Len(pre) = 1
    /\ pre[1].appointments = <<Construct(AnnComprehensive).val>>
    /\ Len(file) = 1
    /\ file[1]["implant"] = PyBool(TRUE)
    /\ file[1]["hygiene"] = PyBool(FALSE)
    /\ file[1]["oncology"] = PyNone
    /\ file[1]["asa"] = PyNone
    /\ Appointment_to_dict(pre[1].appointments[1]).val["hygiene"] = PyBool(FALSE)

\* C25: modify_appointment with a well-formed record, when no patient has
\* the record's mrn or the patient of that mrn holds no appointment of the
\* record's variant and date (one of another variant on that date does not
\* count), raises nothing, returns None, logs that nothing was found and
\* leaves the collection as it was.
C25_NeverInserts ==
    (/\ last.op = "modify_appointment"
     /\ last.args[1] \in WellFormed
     /\ \A i \in 1..Len(pre) : \A j \in 1..Len(pre[i].appointments) :
            ~(pre[i].mrn = last.args[1]["mrn"]
              /\ SameSlot(pre[i].appointments[j], last.args[1]))) =>
        /\ out.exc = "none"
        /\ out.ret = PyNone
        /\ out.log = <<<<"error", "modify_appointment(): Patient not found.">>>>
        /\ patients = pre

\* modify_appointment was called with a Surgery for a patient who holds a
\* LimitedExam on the record's date and no Surgery
C25_Witness ==
    /\ last.op = "modify_appointment"
    /\ last.args[1] = AnnSurgery
    /\ Len(pre) = 1
    /\ pre[1].mrn = PyStr("200")
    /\ Len(pre[1].appointments) = 1
    /\ pre[1].appointments[1].cls = "LimitedExam"
    /\ DateOf(pre[1].appointments[1]) = Strptime(AnnSurgery["date"]).val
    /\ out.ret = PyNone
    /\ patients = pre

\* C26: save, after any sequence of calls, raises nothing and writes one
\* record per appointment of the collection as it was, leaves the
\* collection as it was, and a second save writes the same records.
C26_SaveAnytime ==
    last.op = "save" =>
        /\ out.exc = "none"
        /\ Len(file) = TotalAppointments(pre)
        /\ \A n \in 1..Len(file) :
               file[n] = Merge(FlatPatient(pre[Positions(pre, 1)[n][1]]),
                               FlatOf(At(pre, Positions(pre, 1)[n])))
        /\ patients = pre
        /\ save(patients, file).exc = "none"
        /\ save(patients, file).file = file

\* C27: return_patient_records for the mrn of a patient of the collection
\* returns, leaves the collection as it was, and a second call with the
\* same mrn returns the same result.
C27_Repeatable ==
    (/\ last.op = "return_patient_records"
     /\ \E i \in 1..Len(pre) : pre[i].mrn = MrnArg(last.args[1])) =>
        /\ out.exc = "none"
        /\ patients = pre
        /\ return_patient_records(patients, last.args[1]).exc = "none"
        /\ return_patient_records(patients, last.args[1]).ret = out.ret

\* the entries of log that say a patient was replaced
Replacements(log) ==
    {n \in 1..Len(log) :
        log[n] = <<"debug", "modify_patient() has made the following changes">>}

\* C28: modify_patient with the record of an mrn the collection holds
\* raises nothing, wherever the patient of that mrn is in the list, and
\* replaces once: one replacement is logged and one patient has the mrn,
\* with the record's first name.
C28_ReplacesOnce ==
    (/\ last.op = "modify_patient"
     /\ \E i \in 1..Len(pre) : pre[i].mrn = last.args[1]["mrn"]) =>
        /\ out.exc = "none"
        /\ Cardinality(Replacements(out.log)) = 1
        /\ Cardinality({i \in 1..Len(patients) :
                            patients[i].mrn = last.args[1]["mrn"]}) = 1
        /\ \A i \in 1..Len(patients) :
               patients[i].mrn = last.args[1]["mrn"] =>
                   patients[i].first = last.args[1]["first"]

\* the sequences that hold the elements of s in another order
PermsOf(s) == {[i \in 1..Len(s) |-> s[f[i]]] : f \in Correspondences(Len(s))}

\* the collections that hold the patients of ps, and each patient's
\* appointments, in another order
Shuffles(ps) ==
    UNION {{[i \in 1..Len(p) |-> [p[i] EXCEPT !.appointments = g[i]]] :
               g \in {h \in [1..Len(p) -> UNION {PermsOf(p[i].appointments) : i \in 1..Len(p)}] :
                          \A i \in 1..Len(p) : h[i] \in PermsOf(p[i].appointments)}} :
           p \in PermsOf(ps)}

\* C29: for a collection whose appointments are as their constructors left
\* them, tally_stats raises nothing, whatever the variants and their order,
\* and returns the same buckets for the same patients and appointments in
\* every other order.
C29_AnyOrder ==
    (/\ last.op = "tally_stats"
     /\ \A a \in Held(pre) : TypeOf(a.dict["date"]) = "date") =>
        /\ out.exc = "none"
        /\ \A q \in Shuffles(pre) :
               /\ tally_stats(q, last.args[1], last.args[2]).exc = "none"
               /\ tally_stats(q, last.args[1], last.args[2]).ret = out.ret

----------------------------------------------------------------------------
(* Two instances on one file: each Application() loads the file, changes   *)
(* its own collection, and saves once.  A save is five steps: the call,   *)
(* in which Repo.save builds the records; open(RECORDS_FILENAME, 'w'),     *)
(* which empties the file; yaml.dump, which writes the records from the    *)
(* start of the file; the end of the with block, which closes the file     *)
(* object; and the return.  The steps of the two processes interleave.     *)

\* the most appointments an instance's collection holds
MaxRaceAppointments == 2

RaceFiles == {<<>>, <<TomSurgery, AnnLimited>>}

RaceRecords == {TomSurgery, AnnLimited, TomPeriodic}

RaceKeys == {PyStr("100"), PyStr("200")}

PatientsOf(i) == IF i = 1 THEN patients ELSE peer

\* what is left of a longer text after a shorter one was written over its
\* start, when the shorter is not the start of the longer
Torn == [torn |-> PyBool(TRUE)]

IsPrefix(a, b) == Len(a) <= Len(b) /\ SubSeq(b, 1, Len(a)) = a

\* every record of a is a record of b, counted as often as it occurs: the
\* text of a is then no longer than that of b
Within(a, b) ==
    \E f \in [1..Len(a) -> 1..Len(b)] :
        /\ \A n, m \in 1..Len(a) : f[n] = f[m] => n = m
        /\ \A n \in 1..Len(a) : a[n] = b[f[n]]

\* the contents the file can have after yaml.dump(w) through a file object
\* at position 0 of a file that holds c.  The dump of a list is the dumps
\* of its records one after the other ('[]' for none): when c starts with
\* w the bytes written are those already there; when the text of c is no
\* longer than that of w nothing of c is left; when it is longer its end
\* stays behind w; when the lengths are not known either may happen.
Pwrite(c, w) ==
    IF c = <<>> THEN {w}
    ELSE IF w = <<>> THEN {<<Torn>>}
    ELSE IF IsPrefix(w, c) THEN {c}
    ELSE IF Within(c, w) THEN {w}
    ELSE IF Within(w, c) THEN {Append(w, Torn)}
    ELSE {w, Append(w, Torn)}

\* a call of instance i that leaves the file alone; an instance makes its
\* calls before its save
RaceApply(i, r) ==
    /\ writing[i] = Idle
    /\ \A n \in 1..Len(saved) : saved[n].who # i
    /\ IF i = 1 THEN patients' = r.patients /\ UNCHANGED peer
       ELSE peer' = r.patients /\ UNCHANGED patients
    /\ UNCHANGED <<file, last, pre, out, writing, saved>>

RaceAddAppointment ==
    \E i \in Instances, apt \in RaceRecords :
        /\ TotalAppointments(PatientsOf(i)) < MaxRaceAppointments
        /\ RaceApply(i, add_appointment(PatientsOf(i), apt))

RaceDeletePatient ==
    \E i \in Instances, p \in RaceKeys :
        RaceApply(i, delete_patient(PatientsOf(i), p))

\* Application.save of instance i is called and runs up to the open:
\* Repo.save builds the records (to_dict changes the appointments) and
\* calls _push_to_yaml; the file is not touched yet.  apart says that no
\* save of another instance is under way between the call of this save and
\* its return.
RaceSave ==
    \E i \in Instances :
        LET r == Repo_save(PatientsOf(i))
        IN
        /\ writing[i] = Idle
        /\ \A n \in 1..Len(saved) : saved[n].who # i
        /\ IF i = 1 THEN patients' = r.patients /\ UNCHANGED peer
           ELSE peer' = r.patients /\ UNCHANGED patients
        /\ IF r.exc # "none" THEN UNCHANGED writing
           ELSE writing' =
                    [j \in Instances |->
                        IF j = i
                        THEN [step |-> "called", records |-> r.records,
                              apart |-> \A h \in Instances : writing[h] = Idle]
                        ELSE IF writing[j] = Idle THEN Idle
                        ELSE [writing[j] EXCEPT !.apart = FALSE]]
        /\ UNCHANGED <<file, last, pre, out, saved>>

\* open(RECORDS_FILENAME, 'w') of instance i: the file is emptied and the
\* file object stands at position 0
RaceOpen ==
    \E i \in Instances :
        /\ writing[i].step = "called"
        /\ file' = <<>>
        /\ writing' = [writing EXCEPT ![i].step = "open"]
        /\ UNCHANGED <<patients, peer, last, pre, out, saved>>

\* yaml.dump(records, yaml_outfile) of instance i: the records are in the
\* file when it returns; the file object stays open
RaceDump ==
    \E i \in Instances :
        /\ writing[i].step = "open"
        /\ \E c \in Pwrite(file, writing[i].records) : file' = c
        /\ writing' = [writing EXCEPT ![i].step = "dumped"]
        /\ UNCHANGED <<patients, peer, last, pre, out, saved>>

\* the end of the with block of instance i: the file object is closed,
\* which writes nothing more; save has not returned yet
RaceClose ==
    \E i \in Instances :
        /\ writing[i].step = "dumped"
        /\ writing' = [writing EXCEPT ![i].step = "closed"]
        /\ UNCHANGED <<patients, peer, file, last, pre, out, saved>>

\* _push_to_yaml, Repo.save and Application.save of instance i return
RaceReturn ==
    \E i \in Instances :
        /\ writing[i].step = "closed"
        /\ writing' = [writing EXCEPT ![i] = Idle]
        /\ saved' = Append(saved, [who |-> i, apart |-> writing[i].apart])
        /\ UNCHANGED <<patients, peer, file, last, pre, out>>

InitRace ==
    \E records \in RaceFiles :
        /\ file = records
        /\ patients = Application_init(records).patients
        /\ peer = Application_init(records).patients
        /\ last = NoCall
        /\ pre = <<>>
        /\ out = NoResult
        /\ writing = [i \in Instances |-> Idle]
        /\ saved = <<>>

NextRace ==
    \/ RaceAddAppointment
    \/ RaceDeletePatient
    \/ RaceSave
    \/ RaceOpen
    \/ RaceDump
    \/ RaceClose
    \/ RaceReturn

SpecRace == InitRace /\ [][NextRace]_vars

\* the records Repo.save builds for the collection ps
FlatRecords(ps) ==
    [n \in 1..TotalAppointments(ps) |->
        Merge(FlatPatient(ps[Positions(ps, 1)[n][1]]), FlatOf(At(ps, Positions(ps, 1)[n])))]

\* C30: when two instances have loaded the same file, changed their
\* collections and saved, the file holds exactly the records of the
\* collection of the instance whose save returned last.
C30_LastSaveWins ==
    Len(saved) = 2 => file = FlatRecords(PatientsOf(saved[2].who))

\* C30, of saves that do not overlap: when the save that returned last was
\* called after the other save had returned, the file holds exactly the
\* records of the collection of the instance whose save returned last.
C30_WinsWhenApart ==
    (Len(saved) = 2 /\ saved[2].apart) => file = FlatRecords(PatientsOf(saved[2].who))

====
